---- MODULE Spec2Model ----
(***************************************************************************)
(* Model of the record collapse/merge engine (collapse-json-by-id.ts,      *)
(* src/unnamed/part_002).                                                  *)
(*                                                                         *)
(* JSON values are tagged records [k, v]; JavaScript strings are TLA+      *)
(* strings, analysed one UTF-16 code unit at a time through Chars; JSON    *)
(* objects are sequences of [key, val] entries in insertion order, which   *)
(* is the order Object.entries and Map iteration use.                      *)
(***************************************************************************)
EXTENDS Integers, Sequences, FiniteSets, TLC

(***************************************************************************)
(* Bounds of the model.                                                    *)
(***************************************************************************)
\* Longest input array fed to collapseRecords.
MaxRecords == 3

(***************************************************************************)
(* JSON values (JsonPrimitive | JsonValue[] | JsonObject).                 *)
(***************************************************************************)
JNull == [k |-> "null", v |-> 0]
JBool(b) == [k |-> "bool", v |-> b]
JNum(n) == [k |-> "num", v |-> n]
JStr(s) == [k |-> "str", v |-> s]
JList(items) == [k |-> "list", v |-> items]
JObj(entries) == [k |-> "obj", v |-> entries]
\* The JavaScript value undefined (a missing property, a missing argument).
Undefined == [k |-> "undefined", v |-> 0]

Entry(key, val) == [key |-> key, val |-> val]

\* Object.keys(o), in insertion order.
Keys(o) == [i \in 1..Len(o.v) |-> o.v[i].key]

\* key in o
HasKey(o, key) == \E i \in 1..Len(o.v) : o.v[i].key = key

\* o[key]: the value of the property, undefined when the property is absent.
Get(o, key) ==
  IF HasKey(o, key)
  THEN o.v[CHOOSE i \in 1..Len(o.v) : o.v[i].key = key].val
  ELSE Undefined

\* o[key] = val: an existing property keeps its place, a new one goes last.
Put(o, key, val) ==
  IF HasKey(o, key)
  THEN JObj([i \in 1..Len(o.v) |->
              IF o.v[i].key = key THEN Entry(key, val) ELSE o.v[i]])
  ELSE JObj(Append(o.v, Entry(key, val)))

(***************************************************************************)
(* JavaScript strings.                                                     *)
(***************************************************************************)
\* The code units of a string, one-character strings.
Chars(s) == [i \in 1..Len(s) |-> SubSeq(s, i, i)]

Range(seq) == {seq[i] : i \in 1..Len(seq)}

\* The printable ASCII characters in code-unit order, in three runs that start
\* at U+0020, U+0028 and U+0061 (U+0027 and U+0060 are not used by the model).
AsciiRuns ==
  << [base |-> 32, chars |-> Chars(" !\"#$%&")],
     [base |-> 40, chars |-> Chars("()*+,-./0123456789:;<=>?@ABCDEFGHIJKLMNOPQRSTUVWXYZ[\\]^_")],
     [base |-> 97, chars |-> Chars("abcdefghijklmnopqrstuvwxyz{|}~")] >>

\* charCodeAt of a one-character string.
Code(c) ==
  LET r == CHOOSE j \in 1..Len(AsciiRuns) :
             \E i \in 1..Len(AsciiRuns[j].chars) : AsciiRuns[j].chars[i] = c
      run == AsciiRuns[r]
  IN run.base + (CHOOSE i \in 1..Len(run.chars) : run.chars[i] = c) - 1

\* a < b on strings: lexicographic on code units.
StrLess(a, b) ==
  LET ca == Chars(a)
      cb == Chars(b)
      n == IF Len(ca) < Len(cb) THEN Len(ca) ELSE Len(cb)
      diff == {i \in 1..n : ca[i] # cb[i]}
  IN IF diff = {}
     THEN Len(ca) < Len(cb)
     ELSE LET i == CHOOSE j \in diff : \A h \in diff : j <= h
          IN Code(ca[i]) < Code(cb[i])

\* String.prototype.trim (U+0020 is the only white space in the model).
Trim(s) ==
  LET cs == Chars(s)
      solid == {i \in 1..Len(cs) : cs[i] # " "}
  IN IF solid = {}
     THEN ""
     ELSE SubSeq(s, CHOOSE i \in solid : \A j \in solid : i <= j,
                    CHOOSE i \in solid : \A j \in solid : i >= j)

\* key.startsWith(prefix)
StartsWith(s, prefix) ==
  Len(s) >= Len(prefix) /\ SubSeq(s, 1, Len(prefix)) = prefix

\* Array.prototype.join on strings.
RECURSIVE Join(_, _)
Join(parts, sep) ==
  IF Len(parts) = 0 THEN ""
  ELSE IF Len(parts) = 1 THEN parts[1]
  ELSE parts[1] \o sep \o Join(Tail(parts), sep)

DigitChars == Chars("0123456789")

\* String(n) and JSON.stringify(n) of an integer.
RECURSIVE NatToString(_)
NatToString(n) ==
  IF n < 10 THEN DigitChars[n + 1]
  ELSE NatToString(n \div 10) \o DigitChars[(n % 10) + 1]

NumberToString(n) == IF n < 0 THEN "-" \o NatToString(-n) ELSE NatToString(n)

\* JSON.stringify of a string: quoted, with the quote and the backslash escaped.
QuoteString(s) ==
  LET cs == Chars(s)
  IN "\"" \o Join([i \in 1..Len(cs) |->
                    IF cs[i] = "\"" THEN "\\\""
                    ELSE IF cs[i] = "\\" THEN "\\\\"
                    ELSE cs[i]], "") \o "\""

\* Array.prototype.sort with (a, b) => a.key.localeCompare(b.key): a stable sort.
\* The keys of the model are lower-case letters and "_", on which localeCompare
\* orders as the code units do.
RECURSIVE InsertByKey(_, _)
InsertByKey(sorted, e) ==
  IF Len(sorted) = 0 THEN <<e>>
  ELSE IF StrLess(e.key, sorted[1].key) THEN <<e>> \o sorted
  ELSE <<sorted[1]>> \o InsertByKey(Tail(sorted), e)

RECURSIVE SortByKey(_)
SortByKey(entries) ==
  IF Len(entries) = 0 THEN <<>>
  ELSE InsertByKey(SortByKey(SubSeq(entries, 1, Len(entries) - 1)),
                   entries[Len(entries)])

(***************************************************************************)
(* Predicates and keys on JSON values.                                     *)
(***************************************************************************)
isJsonObject(value) == value.k = "obj"

isMeaningless(value) ==
  IF value.k = "null" THEN TRUE
  ELSE IF value.k = "str" THEN Len(Trim(value.v)) = 0
  ELSE FALSE

\* A variant that does not trim: a freshness value of white space is taken for
\* a value.  C5 does not hold of it.
isMeaninglessMetadataUntrimmed(value) ==
  IF value.k = "null" THEN TRUE
  ELSE IF value.k = "str" THEN Len(value.v) = 0
  ELSE FALSE

isMeaninglessMetadata(value) ==
  IF value.k = "null" THEN TRUE
  ELSE IF value.k = "str" THEN Len(Trim(value.v)) = 0
  ELSE FALSE

isInternalKey(key) == StartsWith(key, "_dlt")

\* cloneJsonValue and cloneJsonObject copy a value; values here are immutable.
cloneJsonValue(value) == value

RECURSIVE stableStringify(_)
stableStringify(value) ==
  IF value.k = "null" THEN "null"
  ELSE IF value.k = "num" THEN NumberToString(value.v)
  ELSE IF value.k = "bool" THEN (IF value.v THEN "true" ELSE "false")
  ELSE IF value.k = "str" THEN QuoteString(value.v)
  ELSE IF value.k = "list"
  THEN "[" \o Join([i \in 1..Len(value.v) |-> stableStringify(value.v[i])], ",")
           \o "]"
  ELSE LET entries == SortByKey(value.v)
       IN "{" \o Join([i \in 1..Len(entries) |->
                        QuoteString(entries[i].key) \o ":"
                          \o stableStringify(entries[i].val)], ",") \o "}"

buildIdKey(value) ==
  IF value.k = "null" THEN "null"
  ELSE IF value.k = "str" THEN value.v
  ELSE IF value.k = "num" THEN NumberToString(value.v)
  ELSE IF value.k = "bool" THEN (IF value.v THEN "true" ELSE "false")
  ELSE stableStringify(value)

(***************************************************************************)
(* Freshness comparison.                                                   *)
(*                                                                         *)
(* A timestamp is a count of milliseconds since the epoch, kept as whole   *)
(* days and milliseconds within the day so that dates of any year stay in  *)
(* the range of the integers of the model checker.  ok = FALSE is the null *)
(* that toTimestamp returns (Date.parse gave NaN).                         *)
(***************************************************************************)
MsPerDay == 86400000

NoTimestamp == [ok |-> FALSE, d |-> 0, ms |-> 0]
Timestamp(d, ms) == [ok |-> TRUE, d |-> d, ms |-> ms]

\* a > b on two timestamps.
TimestampGreater(a, b) == a.d > b.d \/ (a.d = b.d /\ a.ms > b.ms)

IsDigit(c) == \E i \in 1..10 : DigitChars[i] = c
DigitValue(c) == (CHOOSE i \in 1..10 : DigitChars[i] = c) - 1

RECURSIVE DigitsValue(_)
DigitsValue(cs) ==
  IF Len(cs) = 0 THEN 0
  ELSE 10 * DigitsValue(SubSeq(cs, 1, Len(cs) - 1)) + DigitValue(cs[Len(cs)])

IsLeapYear(y) == y % 4 = 0 /\ (y % 100 # 0 \/ y % 400 = 0)

DaysInMonth(y, m) ==
  IF m = 2 THEN (IF IsLeapYear(y) THEN 29 ELSE 28)
  ELSE IF m \in {4, 6, 9, 11} THEN 30
  ELSE 31

\* Days from 1970-01-01 to the civil date y-m-d (proleptic Gregorian calendar).
DaysFromCivil(y, m, d) ==
  LET yy == IF m <= 2 THEN y - 1 ELSE y
      era == yy \div 400
      yoe == yy - era * 400
      mp == IF m > 2 THEN m - 3 ELSE m + 9
      doy == (153 * mp + 2) \div 5 + d - 1
      doe == yoe * 365 + yoe \div 4 - yoe \div 100 + doy
  IN era * 146097 + doe - 719468

\* Date.parse on the date-only forms of the ECMAScript date-time string format,
\* YYYY, YYYY-MM and YYYY-MM-DD, which denote midnight UTC; NaN on other text.
\* The strings of the model are either of these forms or text that no
\* implementation parses as a date.
DateParse(s) ==
  LET cs == Chars(s)
      n == Len(cs)
      shape == /\ n \in {4, 7, 10}
               /\ \A i \in 1..n : IF i \in {5, 8} THEN cs[i] = "-" ELSE IsDigit(cs[i])
      y == DigitsValue(SubSeq(cs, 1, 4))
      m == IF n >= 7 THEN DigitsValue(SubSeq(cs, 6, 7)) ELSE 1
      d == IF n >= 10 THEN DigitsValue(SubSeq(cs, 9, 10)) ELSE 1
  IN IF shape /\ m \in 1..12 /\ d >= 1 /\ d <= DaysInMonth(y, m)
     THEN Timestamp(DaysFromCivil(y, m, d), 0)
     ELSE NoTimestamp

\* Every number of the model is a finite integer.
toTimestamp(value) ==
  IF value.k = "num" THEN Timestamp(value.v \div MsPerDay, value.v % MsPerDay)
  ELSE IF value.k = "str" THEN DateParse(value.v)
  ELSE NoTimestamp

toComparableString(value) ==
  IF value.k = "null" THEN ""
  ELSE IF value.k = "str" THEN value.v
  ELSE IF value.k = "num" THEN NumberToString(value.v)
  ELSE IF value.k = "bool" THEN (IF value.v THEN "true" ELSE "false")
  ELSE stableStringify(value)

\* The body of compareMetadata on its four constants.
compareParsed(nextTimestamp, currentTimestamp, nextComparable, currentComparable) ==
  IF nextTimestamp.ok /\ currentTimestamp.ok /\ nextTimestamp # currentTimestamp
  THEN (IF TimestampGreater(nextTimestamp, currentTimestamp) THEN 1 ELSE -1)
  ELSE IF nextComparable = currentComparable THEN 0
  ELSE IF StrLess(currentComparable, nextComparable) THEN 1 ELSE -1

compareMetadata(nextValue, currentValue) ==
  compareParsed(toTimestamp(nextValue), toTimestamp(currentValue),
                toComparableString(nextValue), toComparableString(currentValue))

(***************************************************************************)
(* Field merge.                                                            *)
(***************************************************************************)
\* A variant that puts a new value first (unshift for push).  C3 does not hold
\* of it: a second collapse reverses the lists of the first.
addValueFirst(acc, value) ==
  IF isMeaningless(value) THEN acc
  ELSE LET key == stableStringify(value)
       IN IF key \in acc.seen THEN acc
          ELSE [values |-> <<cloneJsonValue(value)>> \o acc.values,
                seen |-> acc.seen \cup {key}]

\* The closure addValue of mergeField; acc holds its values and seen.
\* if (!seen.has(key)) { seen.add(key); values.push(cloneJsonValue(value)); }
addUnseen(acc, key, value) ==
  IF key \in acc.seen THEN acc
  ELSE [values |-> Append(acc.values, cloneJsonValue(value)),
        seen |-> acc.seen \cup {key}]

addValue(acc, value) ==
  IF isMeaningless(value) THEN acc
  ELSE addUnseen(acc, stableStringify(value), value)

\* items.forEach(addValue)
RECURSIVE addValues(_, _)
addValues(acc, items) ==
  IF Len(items) = 0 THEN acc
  ELSE addValues(addValue(acc, items[1]), Tail(items))

\* const values = []; const seen = new Set();
NoValues == [values |-> <<>>, seen |-> {}]

\* if (existing !== undefined) { ... }
addExisting(existing) ==
  IF existing.k # "undefined"
  THEN (IF existing.k = "list" THEN addValues(NoValues, existing.v)
        ELSE addValue(NoValues, existing))
  ELSE NoValues

\* if (Array.isArray(incoming)) { ... } else { addValue(incoming); }
addIncoming(acc, incoming) ==
  IF incoming.k = "list" THEN addValues(acc, incoming.v)
  ELSE addValue(acc, incoming)

\* The returns of mergeField.
mergedValue(existing, values) ==
  IF Len(values) = 0
  THEN (IF existing.k \in {"undefined", "null"} THEN JList(<<>>) ELSE existing)
  ELSE IF Len(values) = 1 THEN values[1]
  ELSE JList(values)

mergeField(existing, incoming) ==
  mergedValue(existing, addIncoming(addExisting(existing), incoming).values)

(***************************************************************************)
(* Repositories.                                                           *)
(***************************************************************************)
sanitizeRepositoryObject(value) ==
  JObj(SelectSeq(value.v, LAMBDA e : ~isInternalKey(e.key)))

normalizeRepositoryCollection(value) ==
  IF value.k = "list"
  THEN LET objects == SelectSeq(value.v, LAMBDA item : isJsonObject(item))
       IN [i \in 1..Len(objects) |-> sanitizeRepositoryObject(objects[i])]
  ELSE IF isJsonObject(value) THEN <<sanitizeRepositoryObject(value)>>
  ELSE <<>>

normalizeRepositoryValue(value) ==
  IF value.k = "list" THEN SelectSeq(value.v, LAMBDA item : ~isMeaningless(item))
  ELSE IF isMeaningless(value) THEN <<>>
  ELSE <<value>>

\* repoFields is the JSON object of the repo_<attribute> fields, prefix removed.
buildRepositoryObjects(repoFields) ==
  LET all == [i \in 1..Len(repoFields.v) |->
                [key |-> repoFields.v[i].key,
                 values |-> normalizeRepositoryValue(repoFields.v[i].val)]]
      normalized == SelectSeq(all, LAMBDA e : Len(e.values) # 0)
      lengths == {Len(normalized[i].values) : i \in 1..Len(normalized)}
      maxLength == IF lengths = {} THEN 0
                   ELSE CHOOSE n \in lengths : \A m \in lengths : m <= n
      \* values[index] ?? (values.length === 1 ? values[0] : undefined)
      At(values, index) ==
        IF index <= Len(values) THEN values[index]
        ELSE IF Len(values) = 1 THEN values[1]
        ELSE Undefined
      Repository(index) ==
        LET present == SelectSeq(normalized,
                                 LAMBDA e : At(e.values, index).k # "undefined")
        IN JObj([i \in 1..Len(present) |->
                  Entry(present[i].key, cloneJsonValue(At(present[i].values, index)))])
      repositories == [index \in 1..maxLength |-> Repository(index)]
  IN SelectSeq(repositories, LAMBDA r : Len(r.v) > 0)

buildRepositoryKey(repository) ==
  LET url == Get(repository, "url")
      id == Get(repository, "id")
      type == Get(repository, "type")
  IN IF url.k = "str" /\ Len(Trim(url.v)) > 0 THEN "url:" \o Trim(url.v)
     ELSE IF id.k = "str" /\ Len(Trim(id.v)) > 0 THEN "id:" \o Trim(id.v)
     ELSE IF type.k = "str" /\ Len(Trim(type.v)) > 0 THEN "type:" \o Trim(type.v)
     ELSE "anon:" \o stableStringify(repository)

\* existingRepo[field] = mergeField(existingRepo[field], entry), entry by entry.
RECURSIVE mergeRepositoryFields(_, _)
mergeRepositoryFields(existingRepo, entries) ==
  IF Len(entries) = 0 THEN existingRepo
  ELSE mergeRepositoryFields(
         Put(existingRepo, entries[1].key,
             mergeField(Get(existingRepo, entries[1].key), entries[1].val)),
         Tail(entries))

\* The closure upsert of mergeRepositories; byKey is the Map, whose insertion
\* order is the array order.
upsertKeyed(byKey, key, sanitized) ==
  IF ~HasKey(byKey, key) THEN Put(byKey, key, sanitized)
  ELSE Put(byKey, key, mergeRepositoryFields(Get(byKey, key), sanitized.v))

upsertSanitized(byKey, sanitized) ==
  IF Len(sanitized.v) = 0 THEN byKey
  ELSE upsertKeyed(byKey, buildRepositoryKey(sanitized), sanitized)

upsert(byKey, value) ==
  IF ~isJsonObject(value) THEN byKey
  ELSE upsertSanitized(byKey, sanitizeRepositoryObject(value))

RECURSIVE upsertAll(_, _)
upsertAll(byKey, values) ==
  IF Len(values) = 0 THEN byKey
  ELSE upsertAll(upsert(byKey, values[1]), Tail(values))

\* if (existing !== undefined) { ... }
upsertExisting(existing) ==
  IF existing.k # "undefined"
  THEN (IF existing.k = "list" THEN upsertAll(JObj(<<>>), existing.v)
        ELSE upsert(JObj(<<>>), existing))
  ELSE JObj(<<>>)

\* order.map((key) => cloneJsonObject(byKey.get(key)))
orderedRepositories(byKey) == JList([i \in 1..Len(byKey.v) |-> byKey.v[i].val])

mergeRepositories(existing, incoming) ==
  orderedRepositories(upsertAll(upsertExisting(existing), incoming))

\* The loop of extractRepositoryEntries over Object.entries(record).
RECURSIVE extractLoop(_, _)
extractLoop(acc, entries) ==
  IF Len(entries) = 0 THEN acc
  ELSE LET key == entries[1].key
           value == entries[1].val
           next ==
             IF isInternalKey(key) THEN acc
             ELSE IF key = "repositories"
             THEN [acc EXCEPT !.repoObjects = @ \o normalizeRepositoryCollection(value)]
             ELSE IF StartsWith(key, "repo_")
             THEN (IF Len(key) > 5
                   THEN [acc EXCEPT !.repoFields = Put(@, SubSeq(key, 6, Len(key)), value)]
                   ELSE acc)
             ELSE [acc EXCEPT !.otherEntries = Append(@, Entry(key, value))]
       IN extractLoop(next, Tail(entries))

\* const repoEntries = [...repoObjects, ...buildRepositoryObjects(repoFields)]
extractedEntries(acc) ==
  [repoEntries |-> acc.repoObjects \o buildRepositoryObjects(acc.repoFields),
   otherEntries |-> acc.otherEntries]

extractRepositoryEntries(record) ==
  extractedEntries(extractLoop([repoFields |-> JObj(<<>>), repoObjects |-> <<>>,
                                otherEntries |-> <<>>], record.v))

(***************************************************************************)
(* Merging the records of one group.                                       *)
(***************************************************************************)
\* A variant that forgets merged[key]: the last record of the group wins each
\* field.  C2 does not hold of it.
RECURSIVE mergeEntriesLastWins(_, _)
mergeEntriesLastWins(merged, entries) ==
  IF Len(entries) = 0 THEN merged
  ELSE mergeEntriesLastWins(
         Put(merged, entries[1].key, mergeField(Undefined, entries[1].val)),
         Tail(entries))

\* merged[key] = mergeField(merged[key], value) over otherEntries.
RECURSIVE mergeEntries(_, _)
mergeEntries(merged, entries) ==
  IF Len(entries) = 0 THEN merged
  ELSE mergeEntries(
         Put(merged, entries[1].key,
             mergeField(Get(merged, entries[1].key), entries[1].val)),
         Tail(entries))

\* One record of the group: its repository entries are collected and its
\* other entries are merged.
mergeExtracted(acc, extracted) ==
  [merged |-> mergeEntries(acc.merged, extracted.otherEntries),
   repositoryAccumulator |-> acc.repositoryAccumulator \o extracted.repoEntries]

\* The loop of mergeGroupRecords over the records of the group.
RECURSIVE mergeGroupLoop(_, _)
mergeGroupLoop(acc, records) ==
  IF Len(records) = 0 THEN acc
  ELSE mergeGroupLoop(mergeExtracted(acc, extractRepositoryEntries(records[1])),
                      Tail(records))

\* if (repositoryAccumulator.length > 0) { merged.repositories = ... }
mergedGroup(acc) ==
  IF Len(acc.repositoryAccumulator) > 0
  THEN Put(acc.merged, "repositories",
           mergeRepositories(Get(acc.merged, "repositories"),
                             acc.repositoryAccumulator))
  ELSE acc.merged

\* A variant that leaves the freshness field out of the merged record, as the
\* scenario of the specification has it.  C19 as amended does not hold of it.
mergeGroupRecordsWithoutFreshness(records) ==
  JObj(SelectSeq(
         mergedGroup(mergeGroupLoop([merged |-> JObj(<<>>),
                                     repositoryAccumulator |-> <<>>], records)).v,
         LAMBDA e : e.key # "last_metadata_update"))

mergeGroupRecords(records) ==
  mergedGroup(mergeGroupLoop([merged |-> JObj(<<>>), repositoryAccumulator |-> <<>>],
                             records))

(***************************************************************************)
(* collapseRecords.                                                        *)
(***************************************************************************)
\* The identity field and the freshness field, the defaults of main.
idField == "id"
metadataField == "last_metadata_update"

\* A Map is held like an object: entries [key, val] in insertion order.
EmptyMap == JObj(<<>>)

\* Plays the part of LoopStart in a variant of collapseRecords whose counter
\* of records without identity starts at one.
LoopStartMissingOne ==
  [byId |-> EmptyMap, missingId |-> 1, missingMetadata |-> 0,
   olderRecordsSkipped |-> 0]

\* The state of the loop of collapseRecords before any record.
LoopStart ==
  [byId |-> EmptyMap, missingId |-> 0, missingMetadata |-> 0,
   olderRecordsSkipped |-> 0]

\* byId.set(idKey, { metadata: metadataValue, records: [record] })
startGroup(st, idKey, metadataValue, record) ==
  [st EXCEPT !.byId = Put(@, idKey, [metadata |-> metadataValue,
                                     records |-> <<record>>])]

\* A variant that counts one skipped record for a replaced group, whatever the
\* number of records the group held.  C8 does not hold of it.
replaceGroupCountsOne(st, idKey, metadataValue, record) ==
  LET existing == Get(st.byId, idKey)
  IN [st EXCEPT
        !.olderRecordsSkipped = @ + 1,
        !.byId = Put(@, idKey, [existing EXCEPT !.metadata = metadataValue,
                                                !.records = <<record>>])]

\* A variant that deletes the key before it sets it, so that the replaced
\* group moves to the end of the Map.  C9 does not hold of it.
replaceGroupMovesKey(st, idKey, metadataValue, record) ==
  LET existing == Get(st.byId, idKey)
      others == JObj(SelectSeq(st.byId.v, LAMBDA e : e.key # idKey))
  IN [st EXCEPT
        !.olderRecordsSkipped = @ + Len(existing.records),
        !.byId = Put(others, idKey, [existing EXCEPT !.metadata = metadataValue,
                                                     !.records = <<record>>])]

\* comparison > 0: the group is counted as skipped and starts again.
replaceGroup(st, idKey, metadataValue, record) ==
  LET existing == Get(st.byId, idKey)
  IN [st EXCEPT
        !.olderRecordsSkipped = @ + Len(existing.records),
        !.byId = Put(@, idKey, [existing EXCEPT !.metadata = metadataValue,
                                                !.records = <<record>>])]

\* comparison === 0: existing.records.push(record)
joinGroup(st, idKey, record) ==
  LET existing == Get(st.byId, idKey)
  IN [st EXCEPT
        !.byId = Put(@, idKey, [existing EXCEPT !.records = Append(@, record)])]

\* Plays the part of skipOlder in a variant of collapseRecords that does not
\* count the record it skips.
skipOlderUncounted(st) == st

\* comparison < 0
skipOlder(st) == [st EXCEPT !.olderRecordsSkipped = @ + 1]

\* The three branches on comparison.
applyComparison(st, idKey, metadataValue, record, comparison) ==
  IF comparison > 0 THEN replaceGroup(st, idKey, metadataValue, record)
  ELSE IF comparison = 0 THEN joinGroup(st, idKey, record)
  ELSE skipOlder(st)

\* A usable record: it starts the group of its key or meets the one there.
groupRecord(st, idKey, metadataValue, record) ==
  IF ~HasKey(st.byId, idKey)
  THEN startGroup(st, idKey, metadataValue, record)
  ELSE applyComparison(st, idKey, metadataValue, record,
                       compareMetadata(metadataValue, Get(st.byId, idKey).metadata))

\* One iteration of the loop over records.
LoopBody(st, record) ==
  IF ~isJsonObject(record) \/ ~HasKey(record, idField)
  THEN [st EXCEPT !.missingId = @ + 1]
  ELSE IF ~HasKey(record, metadataField)
  THEN [st EXCEPT !.missingMetadata = @ + 1]
  ELSE IF isMeaninglessMetadata(Get(record, metadataField))
  THEN [st EXCEPT !.missingMetadata = @ + 1]
  ELSE groupRecord(st, buildIdKey(Get(record, idField)),
                   Get(record, metadataField), record)

RECURSIVE collapseLoop(_, _)
collapseLoop(st, recs) ==
  IF Len(recs) = 0 THEN st
  ELSE collapseLoop(LoopBody(st, recs[1]), Tail(recs))

RECURSIVE SumLengths(_)
SumLengths(groups) ==
  IF Len(groups) = 0 THEN 0
  ELSE Len(groups[1].val.records) + SumLengths(Tail(groups))

\* The tail of collapseRecords: the merged records and the summary.
\* collapsed.push(mergeGroupRecords(groupedRecords)) for each group.
mergeGroups(groups) ==
  [i \in 1..Len(groups) |-> mergeGroupRecords(groups[i].val.records)]

\* const summary = { ... }; return { collapsed, summary };
collapseOutput(st, totalRecords, merged, usedRecords) ==
  [collapsed |-> merged,
   summary |-> [totalRecords |-> totalRecords,
                uniqueIds |-> Len(merged),
                usedRecords |-> usedRecords,
                mergedRecords |-> usedRecords - Len(merged),
                missingId |-> st.missingId,
                missingMetadata |-> st.missingMetadata,
                olderRecordsSkipped |-> st.olderRecordsSkipped]]

collapseResult(st, totalRecords) ==
  collapseOutput(st, totalRecords, mergeGroups(st.byId.v), SumLengths(st.byId.v))

collapseRecords(recs) == collapseResult(collapseLoop(LoopStart, recs), Len(recs))

(***************************************************************************)
(* Funding attachment.  An exception thrown inside the attachment is the   *)
(* value Thrown, which every caller passes on unchanged, as the exception  *)
(* unwinds the calls up to main.                                           *)
(***************************************************************************)
Thrown == [k |-> "thrown", v |-> "TypeError"]

\* Drops the keys isInternalKey names.
sanitizeFundingRecord(record) ==
  JObj(SelectSeq(record.v, LAMBDA e : ~isInternalKey(e.key)))

\* Drops the keys id and project_id.
removeFundingInternalKeys(record) ==
  JObj(SelectSeq(record.v, LAMBDA e : e.key # "id" /\ e.key # "project_id"))

createFundingKey(roundId, record) ==
  IF roundId.k = "str" /\ Len(Trim(roundId.v)) > 0
  THEN "round:" \o Trim(roundId.v)
  ELSE "entry:" \o stableStringify(record)

\* The comparison of the comparable strings.  toComparableString of an
\* absent updated_at reaches stableStringify(undefined), where
\* Object.entries(undefined) throws a TypeError.
pickByComparable(left, right, leftValue, rightValue) ==
  IF leftValue.k = "undefined" \/ rightValue.k = "undefined" THEN Thrown
  ELSE IF toComparableString(leftValue) = toComparableString(rightValue)
  THEN right
  ELSE IF StrLess(toComparableString(leftValue),
                  toComparableString(rightValue))
  THEN right
  ELSE left

pickByTimestamps(left, right, leftTimestamp, rightTimestamp) ==
  IF leftTimestamp.ok /\ rightTimestamp.ok
  THEN (IF TimestampGreater(rightTimestamp, leftTimestamp)
        THEN right ELSE left)
  ELSE pickByComparable(left, right,
                        Get(left, "updated_at"), Get(right, "updated_at"))

pickLatestByUpdatedAt(left, right) ==
  pickByTimestamps(left, right,
                   toTimestamp(Get(left, "updated_at")),
                   toTimestamp(Get(right, "updated_at")))

\* seen.set(normalizedKey, choice), unless pickLatestByUpdatedAt threw.
setChoice(seen, normalizedKey, choice) ==
  IF choice.k = "thrown" THEN choice ELSE Put(seen, normalizedKey, choice)

addKeyed(seen, normalizedKey, sanitized) ==
  IF ~HasKey(seen, normalizedKey)
  THEN Put(seen, normalizedKey, sanitized)
  ELSE setChoice(seen, normalizedKey,
                 pickLatestByUpdatedAt(Get(seen, normalizedKey), sanitized))

addSanitized(seen, sanitized) ==
  IF Len(sanitized.v) = 0 THEN seen
  ELSE addKeyed(seen,
                createFundingKey(Get(sanitized, "round_id"), sanitized),
                sanitized)

\* addEntry of mergeFundingEntries; seen is the Map of the entries kept.
addEntry(seen, value) ==
  IF seen.k = "thrown" THEN seen
  ELSE IF ~isJsonObject(value) THEN seen
  ELSE addSanitized(seen, sanitizeFundingRecord(value))

RECURSIVE addEntries(_, _)
addEntries(seen, values) ==
  IF Len(values) = 0 THEN seen
  ELSE addEntries(addEntry(seen, Head(values)), Tail(values))

addExistingEntries(existing) ==
  IF existing.k = "undefined" THEN EmptyMap
  ELSE IF existing.k = "list" THEN addEntries(EmptyMap, existing.v)
  ELSE addEntry(EmptyMap, existing)

emitEntries(seen) ==
  IF seen.k = "thrown" THEN seen
  ELSE JList([i \in 1..Len(seen.v) |->
                removeFundingInternalKeys(seen.v[i].val)])

mergeFundingEntries(existing, incoming) ==
  emitEntries(addEntries(addExistingEntries(existing), incoming))

\* Number(text) for the texts of an amount: whether the result is NaN and
\* whether it is zero.  Blanks around the text are ignored and the empty
\* text is 0; a text of decimal digits with at most one point and at least
\* one digit, after at most one sign, is that number; any other text is NaN
\* (exponents, hexadecimal and Infinity are not among the amounts drawn).
StripSign(text) ==
  IF StartsWith(text, "+") \/ StartsWith(text, "-")
  THEN SubSeq(text, 2, Len(text))
  ELSE text

NumberOfDecimal(text, unsigned) ==
  LET cs == Chars(unsigned)
      digits == {i \in 1..Len(cs) : IsDigit(cs[i])}
      points == {i \in 1..Len(cs) : cs[i] = "."}
  IN IF Len(text) = 0 THEN [nan |-> FALSE, zero |-> TRUE]
     ELSE IF digits \cup points = 1..Len(cs)
             /\ digits # {} /\ Cardinality(points) <= 1
     THEN [nan |-> FALSE, zero |-> \A i \in digits : cs[i] = "0"]
     ELSE [nan |-> TRUE, zero |-> FALSE]

NumberOfTrimmed(text) == NumberOfDecimal(text, StripSign(text))

NumberOf(text) == NumberOfTrimmed(Trim(text))

\* Plays the part of RemoveCommas in a variant of meaningfulText: the text
\* is given to Number as it is.
KeepCommas(text) == text

\* trimmed.replace(/,/g, "")
RemoveCommas(text) ==
  Join(SelectSeq(Chars(text), LAMBDA c : c # ","), "")

meaningfulNumber(numeric) ==
  IF ~numeric.nan THEN ~numeric.zero ELSE TRUE

meaningfulText(trimmed) ==
  IF Len(trimmed) = 0 THEN FALSE
  ELSE meaningfulNumber(NumberOf(RemoveCommas(trimmed)))

hasMeaningfulAmount(value) ==
  IF value.k = "undefined" \/ value.k = "null" THEN FALSE
  ELSE IF value.k = "num" THEN value.v # 0
  ELSE IF value.k = "str" THEN meaningfulText(Trim(value.v))
  ELSE TRUE

\* byProjectId.get(key) ? bucket.push(sanitized) : set(key, [sanitized])
indexSanitized(byProjectId, key, sanitized) ==
  IF Len(sanitized.v) = 0 THEN byProjectId
  ELSE IF HasKey(byProjectId, key)
  THEN Put(byProjectId, key, Append(Get(byProjectId, key), sanitized))
  ELSE Put(byProjectId, key, <<sanitized>>)

\* One iteration of the loop of buildFundingIndex.
indexRecord(byProjectId, record) ==
  IF ~isJsonObject(record) THEN byProjectId
  ELSE IF Get(record, "project_id").k = "undefined" THEN byProjectId
  ELSE IF isMeaningless(Get(record, "project_id")) THEN byProjectId
  ELSE IF ~hasMeaningfulAmount(Get(record, "amount")) THEN byProjectId
  ELSE indexSanitized(byProjectId, buildIdKey(Get(record, "project_id")),
                      sanitizeFundingRecord(record))

RECURSIVE buildFundingIndex(_, _)
buildFundingIndex(byProjectId, fundingRecordList) ==
  IF Len(fundingRecordList) = 0 THEN byProjectId
  ELSE buildFundingIndex(indexRecord(byProjectId, Head(fundingRecordList)),
                         Tail(fundingRecordList))

\* record[targetField] = mergeFundingEntries(existing, fundingEntries)
setTargetField(record, targetField, entries) ==
  IF entries.k = "thrown" THEN entries ELSE Put(record, targetField, entries)

\* Plays the part of attachEntries in a variant of attachFundingData that
\* gives a record without funding an empty list.
attachEntriesOrNone(record, fundingById, key, targetField) ==
  IF ~HasKey(fundingById, key) THEN Put(record, targetField, JList(<<>>))
  ELSE setTargetField(record, targetField,
         mergeFundingEntries(Get(record, targetField), Get(fundingById, key)))

attachEntries(record, fundingById, key, targetField) ==
  IF ~HasKey(fundingById, key) THEN record
  ELSE setTargetField(record, targetField,
         mergeFundingEntries(Get(record, targetField), Get(fundingById, key)))

\* One iteration of the loop of attachFundingData.
attachToRecord(record, fundingById, targetField) ==
  IF Get(record, idField).k = "undefined" THEN record
  ELSE attachEntries(record, fundingById, buildIdKey(Get(record, idField)),
                     targetField)

\* The loop of attachFundingData over the merged records; an exception ends
\* it.
RECURSIVE attachLoop(_, _, _, _)
attachNext(done, result, rest, fundingById, targetField) ==
  IF result.k = "thrown" THEN [thrown |-> TRUE, records |-> done]
  ELSE attachLoop(Append(done, result), rest, fundingById, targetField)

attachLoop(done, rest, fundingById, targetField) ==
  IF Len(rest) = 0 THEN [thrown |-> FALSE, records |-> done]
  ELSE attachNext(done, attachToRecord(Head(rest), fundingById, targetField),
                  Tail(rest), fundingById, targetField)

attachFundingData(recordList, fundingById, targetField) ==
  attachLoop(<<>>, recordList, fundingById, targetField)

(***************************************************************************)
(* Inputs.  An input file is an array of records drawn from one family:    *)
(* records of two identities with freshness values of every kind (dates, a *)
(* date given by year only, a number, text that is no date), records of    *)
(* equal freshness with fields of every shape, defective records together  *)
(* with identities that differ only in type, records with repositories,    *)
(* and the two records of the worked example.                              *)
(***************************************************************************)
Rec(id, t, key, val) ==
  JObj(<<Entry("id", id), Entry(metadataField, t), Entry(key, val)>>)

FreshnessRecords ==
  { Rec(JStr("a"), JStr("1970-01-01"), "v", JNum(1)),
    Rec(JStr("a"), JStr("1970-01-02"), "v", JNum(2)),
    Rec(JStr("a"), JStr("1970"), "w", JNum(3)),
    Rec(JStr("a"), JNum(-1), "v", JNum(4)),
    Rec(JStr("a"), JStr("1969-12-31"), "v", JNum(5)),
    Rec(JStr("a"), JStr("."), "v", JNum(6)),
    Rec(JStr("b"), JStr("1970-01-01"), "v", JNum(7)),
    Rec(JStr("b"), JStr("1970-01-02"), "v", JNum(8)) }

MergeRecords ==
  { Rec(JStr("a"), JStr("T"), "tag", JStr("x")),
    Rec(JStr("a"), JStr("T"), "tag", JStr("y")),
    Rec(JStr("a"), JStr("T"), "tag", JList(<<JStr("y"), JNull, JStr("x")>>)),
    Rec(JStr("a"), JStr("T"), "tag", JStr(" ")),
    Rec(JStr("a"), JStr("T"), "f", JList(<<JList(<<JNum(1)>>)>>)),
    Rec(JStr("a"), JStr("T"), "f", JNum(3)),
    Rec(JStr("a"), JStr("T"), "f",
        JObj(<<Entry("p", JNum(1)), Entry("q", JNum(2))>>)),
    Rec(JStr("a"), JStr("T"), "f",
        JObj(<<Entry("q", JNum(2)), Entry("p", JNum(1))>>)),
    JObj(<<Entry("repositories", JList(<<JObj(<<>>)>>)),
           Entry("id", JStr("b")), Entry(metadataField, JStr("T")),
           Entry("_dlt_id", JStr("k"))>>),
    JObj(<<Entry("id", JStr("b")), Entry("repo_url", JStr("u")),
           Entry(metadataField, JStr("T")),
           Entry("repositories",
                 JList(<<JObj(<<Entry("url", JStr("u")),
                                Entry("stars", JNum(5))>>)>>))>>) }

DefectRecords ==
  { JStr("junk"),
    JNull,
    JObj(<<Entry(metadataField, JStr("T")), Entry("v", JNum(1))>>),
    JObj(<<Entry("id", JStr("a")), Entry("v", JNum(1))>>),
    Rec(JStr("a"), JNull, "v", JNum(1)),
    Rec(JStr("a"), JStr(""), "v", JNum(1)),
    Rec(JStr("a"), JStr("  "), "v", JNum(1)),
    Rec(JNum(1), JStr("T"), "v", JNum(1)),
    Rec(JStr("1"), JStr("T"), "v", JNum(2)),
    Rec(JNull, JStr("T"), "v", JNum(3)),
    Rec(JStr("null"), JStr("T"), "v", JNum(4)) }

\* Records of one identity that carry repository objects: objects with a url
\* (the same but for white space, and another), with an id, with a type, with
\* none of the three, with an internal key, entries that are no objects, the
\* repo_<attribute> fields, and a record of older freshness.
Repo(entries) == JObj(entries)

RepositoryRecords ==
  { Rec(JStr("a"), JStr("T"), "repositories",
        JList(<<Repo(<<Entry("url", JStr("u")), Entry("stars", JNum(5))>>),
                Repo(<<Entry("id", JStr("x")), Entry("lang", JStr("ts"))>>)>>)),
    Rec(JStr("a"), JStr("T"), "repositories",
        JList(<<Repo(<<Entry("url", JStr(" u")), Entry("stars", JNum(6)),
                       Entry("lang", JStr("ts"))>>)>>)),
    Rec(JStr("a"), JStr("T"), "repositories",
        JList(<<Repo(<<Entry("id", JStr("x")), Entry("lang", JStr("go"))>>),
                Repo(<<Entry("type", JStr("t"))>>),
                Repo(<<Entry("name", JStr("n"))>>)>>)),
    Rec(JStr("a"), JStr("T"), "repositories",
        JList(<<Repo(<<Entry("name", JStr("n"))>>),
                Repo(<<Entry("type", JStr("t")), Entry("url", JStr(""))>>)>>)),
    JObj(<<Entry("id", JStr("a")), Entry(metadataField, JStr("T")),
           Entry("repo_url", JList(<<JStr("v"), JStr("u")>>)),
           Entry("repo_stars", JNum(5))>>),
    Rec(JStr("a"), JStr("T"), "repositories",
        Repo(<<Entry("url", JStr("v")), Entry("stars", JNum(7))>>)),
    Rec(JStr("a"), JStr("T"), "repositories",
        JList(<<JStr("junk"),
                Repo(<<Entry("url", JStr("u")), Entry("_dlt_id", JStr("k")),
                       Entry("topics", JList(<<JStr("a"), JNull>>))>>)>>)),
    Rec(JStr("a"), JStr("S"), "repositories",
        JList(<<Repo(<<Entry("url", JStr("w"))>>)>>)) }

\* The two records of the end-to-end scenario: a project with a repository,
\* and an older record of the same project.
ScenarioRecords ==
  << JObj(<<Entry("id", JStr("p1")),
            Entry(metadataField, JStr("2024-06-01")),
            Entry("name", JStr("Foo")),
            Entry("repositories",
                  JList(<<Repo(<<Entry("url", JStr("https://x"))>>)>>))>>),
     JObj(<<Entry("id", JStr("p1")),
            Entry(metadataField, JStr("2024-01-01")),
            Entry("name", JStr("Old"))>>) >>

InputFiles == {"freshness", "merge", "defects", "repositories", "scenario"}

RecordsOf(file) ==
  IF file = "freshness" THEN FreshnessRecords
  ELSE IF file = "merge" THEN MergeRecords
  ELSE IF file = "defects" THEN DefectRecords
  ELSE IF file = "repositories" THEN RepositoryRecords
  ELSE {ScenarioRecords[1], ScenarioRecords[2]}

(***************************************************************************)
(* The run of collapseRecords over an input file, record by record, and a  *)
(* second run over its own output.                                         *)
(***************************************************************************)
VARIABLES
  inputFile,            \* the family the input file is drawn from
  records,              \* the records consumed so far
  byId,                 \* Map idKey -> {metadata, records}
  missingId,
  missingMetadata,
  olderRecordsSkipped,
  members,              \* history: members[i] = positions in records of the
                        \* records held by the i-th group of byId
  pc,                   \* "loop", "done", "recollapsed"
  collapsed,            \* the merged records
  summary,              \* the CollapseSummary
  recollapsed,          \* collapseRecords of collapsed
  repoFields,           \* the argument of buildRepositoryObjects
  repositories,         \* its result
  fundingRecords,       \* the auxiliary records indexed so far
  fundingById,          \* Map idKey -> funding records
  fundingTarget,        \* the merged record funding is attached to
  attached,             \* that record after attachFundingData, or Thrown
  rawText,              \* the lines of the text given to parseRecords
  parsedRecords,        \* its outcome
  argv,                 \* the command line of main
  exitCode,             \* process.exitCode
  attachments,          \* the funding indexes main has loaded
  outputWritten,        \* "none", "partial" or "complete": what writeFile
                        \* has put in the output file
  summaryLogged,        \* logSummary has run
  failedAt,             \* history: what failed in the run, or "none"
  fieldExisting,        \* the arguments of mergeField
  fieldIncoming,
  fieldMerged,          \* its result
  taxonomy,             \* validate-results: the value of taxonomy.json
  resultsFile,          \* the value of results.json (results)
  entryIndex,           \* the loop variable i
  seenIds,              \* the Set seenIds
  report,               \* "none", "passed" or "failed": the closing message
  tagConfig,            \* add-project-tags: the TagRuntimeConfig
  project,              \* the project processProject works on
  retryCount,           \* the argument of generateTagsWithLLM
  requests,             \* history: the requests sent for the project
  waits,                \* history: the delays waited before its retries
  taggedProject,        \* what processProject returns
  tagPath,              \* history: "llm", "default" or "error"
  rawProjects,          \* the projects of the input file
  limit,                \* cliOptions.limit, -1 for undefined
  checkpointFile,       \* the content of CHECKPOINT_FILE
  taggedOutput,         \* the content of the tagged output file
  startIndex,
  projectIndex,         \* the loop variable i of main
  taggedProjects,
  processedIds,
  processedThisRun,
  lastProcessedIndex,
  highestTaggedIndex,
  lastCheckpointIndex,
  slept,                \* history: sleep(DELAY_BETWEEN_REQUESTS) has ended
                        \* since processProject last returned
  generated,            \* history: the tags processProject returned, by
                        \* position, over all sessions
  sessionCount,         \* history: the runs of the script started so far
  catProject,           \* categorize-projects: the project to categorize
  suggested             \* the category given to it

collapseVars ==
  <<inputFile, records, byId, missingId, missingMetadata, olderRecordsSkipped,
    members, collapsed, summary, recollapsed>>

repoVars == <<repoFields, repositories>>

fundingVars == <<fundingRecords, fundingById, fundingTarget, attached>>

parseVars == <<rawText, parsedRecords>>

mainVars ==
  <<argv, attachments, exitCode, outputWritten, summaryLogged, failedAt>>

fieldVars == <<fieldExisting, fieldIncoming, fieldMerged>>

validateVars == <<taxonomy, resultsFile, entryIndex, seenIds, report>>

projectVars ==
  <<tagConfig, project, retryCount, requests, waits, taggedProject, tagPath>>

sessionVars ==
  <<rawProjects, limit, checkpointFile, taggedOutput, startIndex, projectIndex,
    taggedProjects, processedIds, processedThisRun, lastProcessedIndex,
    highestTaggedIndex, lastCheckpointIndex, slept, generated, sessionCount>>

categorizeVars == <<catProject, suggested>>

scriptVars == <<validateVars, projectVars, sessionVars, categorizeVars>>

auxVars == <<fundingVars, parseVars, mainVars, fieldVars, scriptVars>>

vars == <<collapseVars, pc, repoVars, auxVars>>

\* The parts of the state a specification does not use stay as they are here.
FundingIdle ==
  /\ fundingRecords = <<>>
  /\ fundingById = JObj(<<>>)
  /\ fundingTarget = JObj(<<>>)
  /\ attached = JObj(<<>>)

ParseIdle ==
  /\ rawText = <<>>
  /\ parsedRecords = <<>>

MainIdle ==
  /\ argv = <<>>
  /\ attachments = <<>>
  /\ exitCode = 0
  /\ outputWritten = "none"
  /\ summaryLogged = FALSE
  /\ failedAt = "none"

FieldIdle ==
  /\ fieldExisting = Undefined
  /\ fieldIncoming = Undefined
  /\ fieldMerged = Undefined

ValidateIdle ==
  /\ taxonomy = Undefined
  /\ resultsFile = Undefined
  /\ entryIndex = 0
  /\ seenIds = {}
  /\ report = "none"

ProjectIdle ==
  /\ tagConfig = Undefined
  /\ project = Undefined
  /\ retryCount = 0
  /\ requests = 0
  /\ waits = <<>>
  /\ taggedProject = Undefined
  /\ tagPath = "none"

SessionIdle ==
  /\ rawProjects = <<>>
  /\ limit = -1
  /\ checkpointFile = Undefined
  /\ taggedOutput = <<>>
  /\ startIndex = 0
  /\ projectIndex = 0
  /\ taggedProjects = <<>>
  /\ processedIds = {}
  /\ processedThisRun = 0
  /\ lastProcessedIndex = -1
  /\ highestTaggedIndex = -1
  /\ lastCheckpointIndex = -1
  /\ slept = FALSE
  /\ generated = <<>>
  /\ sessionCount = 0

CategorizeIdle ==
  /\ catProject = Undefined
  /\ suggested = ""

ScriptsIdle == ValidateIdle /\ ProjectIdle /\ SessionIdle /\ CategorizeIdle

LoopState ==
  [byId |-> byId, missingId |-> missingId, missingMetadata |-> missingMetadata,
   olderRecordsSkipped |-> olderRecordsSkipped]

Init ==
  /\ inputFile \in InputFiles
  /\ records = <<>>
  /\ byId = LoopStart.byId
  /\ missingId = LoopStart.missingId
  /\ missingMetadata = LoopStart.missingMetadata
  /\ olderRecordsSkipped = LoopStart.olderRecordsSkipped
  /\ members = <<>>
  /\ pc = "loop"
  /\ collapsed = <<>>
  /\ summary = collapseResult(LoopStart, 0).summary
  /\ recollapsed = <<>>
  /\ repoFields = JObj(<<>>)
  /\ repositories = <<>>
  /\ FundingIdle /\ ParseIdle /\ MainIdle /\ FieldIdle /\ ScriptsIdle

\* The positions held by each group after the iteration that took the record
\* at position idx from state before to state after.
MembersAfter(before, after, idx) ==
  [i \in 1..Len(after.byId.v) |->
     IF i > Len(before.byId.v) THEN <<idx>>
     ELSE IF after.byId.v[i] = before.byId.v[i] THEN members[i]
     ELSE IF Len(after.byId.v[i].val.records)
               = Len(before.byId.v[i].val.records) + 1
     THEN Append(members[i], idx)
     ELSE <<idx>>]

\* The locals of collapseRecords after an iteration.
StoreLoopState(after) ==
  /\ byId' = after.byId
  /\ missingId' = after.missingId
  /\ missingMetadata' = after.missingMetadata
  /\ olderRecordsSkipped' = after.olderRecordsSkipped
  /\ members' = MembersAfter(LoopState, after, Len(records) + 1)

\* for (const record of records) { ... }
ProcessRecord(record) ==
  /\ pc = "loop"
  /\ Len(records) < MaxRecords
  /\ StoreLoopState(LoopBody(LoopState, record))
  /\ records' = Append(records, record)
  /\ UNCHANGED <<inputFile, pc, collapsed, summary, recollapsed, repoVars,
                 auxVars>>

\* const { collapsed, summary } = collapseRecords(...)
StoreResult(result) ==
  /\ collapsed' = result.collapsed
  /\ summary' = result.summary

\* The end of the array: the groups are merged and the summary is built.
Finish ==
  /\ pc = "loop"
  /\ StoreResult(collapseResult(LoopState, Len(records)))
  /\ pc' = "done"
  /\ UNCHANGED <<inputFile, records, byId, missingId, missingMetadata,
                 olderRecordsSkipped, members, recollapsed, repoVars,
                 auxVars>>

\* A second run, on the output of the first.
Recollapse ==
  /\ pc = "done"
  /\ recollapsed' = collapseRecords(collapsed).collapsed
  /\ pc' = "recollapsed"
  /\ UNCHANGED <<inputFile, records, byId, missingId, missingMetadata,
                 olderRecordsSkipped, members, collapsed, summary, repoVars,
                 auxVars>>

Next ==
  \/ \E record \in RecordsOf(inputFile) : ProcessRecord(record)
  \/ Finish
  \/ Recollapse

Spec == Init /\ [][Next]_vars

(***************************************************************************)
(* buildRepositoryObjects on its own: the repo_<attribute> fields of one   *)
(* record, each absent, single-valued or a list, with and without empty    *)
(* entries.                                                                *)
(***************************************************************************)
UrlValues ==
  { Undefined, JStr("u1"), JList(<<JStr("u1")>>),
    JList(<<JStr("u1"), JStr("u2")>>), JList(<<JNull, JStr("u2")>>),
    JList(<<JStr("u1"), JStr("u2"), JStr("u3")>>) }

StarsValues ==
  { Undefined, JNum(5), JNull, JList(<<JNum(5)>>),
    JList(<<JNum(5), JNum(6)>>), JList(<<JNull, JNum(6)>>) }

LanguageValues ==
  { Undefined, JStr("ts"), JList(<<JStr("ts"), JStr(""), JStr("go")>>) }

\* The object of the fields that are present, in the order of the record.
RepoFieldsOf(url, stars, language) ==
  JObj(SelectSeq(<<Entry("url", url), Entry("stars", stars),
                   Entry("language", language)>>,
                 LAMBDA e : e.val.k # "undefined"))

InitRepo ==
  /\ inputFile = "none"
  /\ records = <<>>
  /\ byId = LoopStart.byId
  /\ missingId = LoopStart.missingId
  /\ missingMetadata = LoopStart.missingMetadata
  /\ olderRecordsSkipped = LoopStart.olderRecordsSkipped
  /\ members = <<>>
  /\ pc = "repo"
  /\ collapsed = <<>>
  /\ summary = collapseResult(LoopStart, 0).summary
  /\ recollapsed = <<>>
  /\ \E url \in UrlValues, stars \in StarsValues, language \in LanguageValues :
        repoFields = RepoFieldsOf(url, stars, language)
  /\ repositories = <<>>
  /\ FundingIdle /\ ParseIdle /\ MainIdle /\ FieldIdle /\ ScriptsIdle

BuildRepositories ==
  /\ pc = "repo"
  /\ repositories' = buildRepositoryObjects(repoFields)
  /\ pc' = "built"
  /\ UNCHANGED <<collapseVars, repoFields, auxVars>>

NextRepo == BuildRepositories

SpecRepo == InitRepo /\ [][NextRepo]_vars

(***************************************************************************)
(* Funding attachment on its own: an auxiliary dataset is indexed record   *)
(* by record, then attached to one merged record that does or does not     *)
(* hold funding entries already.                                           *)
(***************************************************************************)
MaxFunding == 3

\* An auxiliary record; an Undefined argument is a key the record lacks.
Fund(id, projectId, roundId, amount, updatedAt) ==
  JObj(SelectSeq(<<Entry("id", id), Entry("project_id", projectId),
                   Entry("round_id", roundId), Entry("amount", amount),
                   Entry("updated_at", updatedAt)>>,
                 LAMBDA e : e.val.k # "undefined"))

FundingRecords ==
  { Fund(JNum(1), JStr("p"), JStr("7"), JNum(5), JStr("2024-01-01")),
    Fund(JNum(2), JStr("p"), JStr("7"), JNum(6), JStr("2024-02-01")),
    Fund(JNum(3), JStr("p"), JStr(" 7"), JNum(7), Undefined),
    Fund(JNum(4), JStr("p"), JStr("7"), JNum(8), JNull),
    Fund(JNum(5), JStr("p"), JStr("8"), JNum(0), JStr("2024-01-01")),
    Fund(JNum(6), JStr("p"), JStr("8"), JStr("0.0"), JStr("2024-01-01")),
    Fund(JNum(7), JStr("p"), JStr("8"), JStr("0,000"), JStr("2024-01-01")),
    Fund(JNum(8), JStr("p"), JStr("8"), JStr(" "), JStr("2024-01-01")),
    Fund(JNum(9), JStr("p"), JStr("8"), JNull, JStr("2024-01-01")),
    Fund(JNum(10), JStr("p"), JStr("8"), Undefined, JStr("2024-01-01")),
    Fund(JNum(11), JStr("p"), Undefined, JNum(5), Undefined),
    Fund(JNum(12), JStr("p"), Undefined, JNum(5), Undefined),
    Fund(JNum(13), JStr("p"), JNum(7), JNum(5), JStr("2024-01-01")),
    Fund(JNum(14), JStr("p"), JNum(7), JNum(6), JStr("2024-02-01")),
    Fund(JNum(15), JNull, JStr("7"), JNum(5), JStr("2024-03-01")),
    Fund(JNum(16), JStr(" "), JStr("7"), JNum(5), JStr("2024-03-01")),
    Fund(JNum(17), Undefined, JStr("7"), JNum(5), JStr("2024-03-01")),
    Fund(JNum(18), JStr("q"), JStr("7"), JNum(9), JStr("2024-03-01")),
    Fund(JNum(19), JStr("p"), JStr("9"), JStr("1,000"), JStr("2024-01-01")),
    Fund(JNum(20), JStr("p"), JStr("9"), JStr("n/a"), JStr("2024-02-01")),
    JStr("junk") }

selfReportedFunding == "selfReportedFunding"

\* The merged records funding is attached to: the output of collapseRecords
\* for one record without and one record with funding entries.
FundingTargets ==
  { collapseRecords(<<r>>).collapsed[1] :
      r \in { JObj(<<Entry(idField, JStr("p")),
                     Entry(metadataField, JStr("2024-06-01"))>>),
              JObj(<<Entry(idField, JStr("p")),
                     Entry(metadataField, JStr("2024-06-01")),
                     Entry(selfReportedFunding,
                           JList(<<Fund(Undefined, Undefined, JStr("7"),
                                        JNum(4), JStr("2024-01-15"))>>))>>) } }

CollapseIdle ==
  /\ inputFile = "none"
  /\ records = <<>>
  /\ byId = LoopStart.byId
  /\ missingId = LoopStart.missingId
  /\ missingMetadata = LoopStart.missingMetadata
  /\ olderRecordsSkipped = LoopStart.olderRecordsSkipped
  /\ members = <<>>
  /\ collapsed = <<>>
  /\ summary = collapseResult(LoopStart, 0).summary
  /\ recollapsed = <<>>

RepoIdle ==
  /\ repoFields = JObj(<<>>)
  /\ repositories = <<>>

InitFunding ==
  /\ CollapseIdle /\ RepoIdle /\ ParseIdle /\ MainIdle /\ FieldIdle
  /\ ScriptsIdle
  /\ pc = "index"
  /\ fundingRecords = <<>>
  /\ fundingById = EmptyMap
  /\ fundingTarget \in FundingTargets
  /\ attached = JObj(<<>>)

\* for (const record of records) { ... } in buildFundingIndex
IndexRecord(record) ==
  /\ pc = "index"
  /\ Len(fundingRecords) < MaxFunding
  /\ fundingById' = indexRecord(fundingById, record)
  /\ fundingRecords' = Append(fundingRecords, record)
  /\ UNCHANGED <<collapseVars, pc, repoVars, fundingTarget, attached,
                 parseVars, mainVars, fieldVars, scriptVars>>

\* attachFundingData(records, dataset, idField, "selfReportedFunding")
AttachFunding ==
  /\ pc = "index"
  /\ attached' = attachToRecord(fundingTarget, fundingById,
                                selfReportedFunding)
  /\ pc' = "attached"
  /\ UNCHANGED <<collapseVars, repoVars, fundingRecords, fundingById,
                 fundingTarget, parseVars, mainVars, fieldVars,
                 scriptVars>>

NextFunding ==
  \/ \E record \in FundingRecords : IndexRecord(record)
  \/ AttachFunding

SpecFunding == InitFunding /\ [][NextFunding]_vars

(***************************************************************************)
(* parseRecords.  A text is the sequence of its lines, and a line is what  *)
(* JSON.parse makes of it: a whole object, an object followed by a comma,  *)
(* an opening or closing bracket, a scalar, a blank line, or text that is  *)
(* no part of any JSON document.                                           *)
(***************************************************************************)
MaxLines == 4

Line(kind, value) == [kind |-> kind, value |-> value]

LineKinds ==
  { Line("object", JObj(<<Entry("id", JStr("a"))>>)),
    Line("object", JObj(<<Entry("id", JStr("b"))>>)),
    Line("objectComma", JObj(<<Entry("id", JStr("a"))>>)),
    Line("open", JNull),
    Line("close", JNull),
    Line("scalar", JNum(7)),
    Line("junk", JNull),
    Line("blank", JNull) }

Texts == UNION { [1..n -> LineKinds] : n \in 0..MaxLines }

NotBlank(line) == line.kind # "blank"

\* raw.trim(), then the lines that hold anything; blank lines inside a JSON
\* document are white space to JSON.parse and are filtered by the NDJSON
\* branch.
solidLines(raw) == SelectSeq(raw, NotBlank)

SyntaxError == [ok |-> FALSE, value |-> JNull]

Parsed(value) == [ok |-> TRUE, value |-> value]

\* JSON.parse of a sequence of solid lines: one whole value, or an array
\* written over several lines whose elements but the last end in a comma.
RECURSIVE JSONParse(_)
RECURSIVE parseElements(_, _)
lastElement(items, element) ==
  IF element.ok THEN Parsed(JList(Append(items, element.value)))
  ELSE SyntaxError

parseElements(items, body) ==
  IF Len(body) = 0
  THEN (IF Len(items) = 0 THEN Parsed(JList(<<>>)) ELSE SyntaxError)
  ELSE IF Head(body).kind = "objectComma"
  THEN parseElements(Append(items, Head(body).value), Tail(body))
  ELSE lastElement(items, JSONParse(body))

JSONParse(lines) ==
  IF Len(lines) = 0 THEN SyntaxError
  ELSE IF Len(lines) = 1
  THEN (IF lines[1].kind \in {"object", "scalar"}
        THEN Parsed(lines[1].value) ELSE SyntaxError)
  ELSE IF lines[1].kind = "open" /\ lines[Len(lines)].kind = "close"
  THEN parseElements(<<>>, SubSeq(lines, 2, Len(lines) - 1))
  ELSE SyntaxError

Rejected(message) == [ok |-> FALSE, records |-> <<>>, error |-> message]

Accepted(recordList) == [ok |-> TRUE, records |-> recordList, error |-> ""]

\* The catch branch: every line is parsed on its own.
parsedLines(lines) == [i \in 1..Len(lines) |-> JSONParse(<<lines[i]>>)]

ndjsonRecords(results) ==
  IF \E i \in 1..Len(results) : ~results[i].ok
  THEN Rejected("SyntaxError")
  ELSE IF \E i \in 1..Len(results) : ~isJsonObject(results[i].value)
  THEN Rejected("SyntaxError")
  ELSE Accepted([i \in 1..Len(results) |-> results[i].value])

parseTrimmed(lines, whole) ==
  IF whole.ok
  THEN (IF whole.value.k = "list" THEN Accepted(whole.value.v)
        ELSE Rejected("Expected a JSON array or newline-delimited JSON objects."))
  ELSE ndjsonRecords(parsedLines(lines))

parseSolid(lines) ==
  IF Len(lines) = 0 THEN Accepted(<<>>)
  ELSE parseTrimmed(lines, JSONParse(lines))

parseRecords(raw) == parseSolid(solidLines(raw))

InitParse ==
  /\ CollapseIdle /\ RepoIdle /\ FundingIdle /\ MainIdle /\ FieldIdle
  /\ ScriptsIdle
  /\ pc = "parse"
  /\ rawText \in Texts
  /\ parsedRecords = <<>>

\* records = parseRecords(raw)
ParseRecords ==
  /\ pc = "parse"
  /\ parsedRecords' = parseRecords(rawText)
  /\ pc' = "parsed"
  /\ UNCHANGED <<collapseVars, repoVars, fundingVars, rawText, mainVars,
                 fieldVars, scriptVars>>

NextParse == ParseRecords

SpecParse == InitParse /\ [][NextParse]_vars

(***************************************************************************)
(* mergeField on its own.  The existing value is absent, a value an        *)
(* earlier mergeField returned, or the field of a repository object as the *)
(* input gave it (upsert stores the first object of a key as it is and     *)
(* merges the fields of later objects into it).                            *)
(***************************************************************************)
ExistingValues ==
  { Undefined, JList(<<>>), JStr("x"), JNum(1),
    JList(<<JStr("x"), JStr("y")>>),
    JObj(<<Entry("url", JStr("u"))>>),
    JNull, JStr(""), JStr(" "), JList(<<JNull, JStr("x")>>) }

IncomingValues ==
  { JNull, JStr(""), JStr(" "), JStr("x"), JStr("y"), JNum(1), JBool(FALSE),
    JList(<<>>), JList(<<JNull, JStr("")>>),
    JList(<<JStr("x"), JNull, JStr("z")>>),
    JObj(<<Entry("url", JStr("u"))>>) }

InitField ==
  /\ CollapseIdle /\ RepoIdle /\ FundingIdle /\ ParseIdle /\ MainIdle
  /\ ScriptsIdle
  /\ pc = "field"
  /\ fieldExisting \in ExistingValues
  /\ fieldIncoming \in IncomingValues
  /\ fieldMerged = Undefined

\* merged[key] = mergeField(merged[key], value)
MergeField ==
  /\ pc = "field"
  /\ fieldMerged' = mergeField(fieldExisting, fieldIncoming)
  /\ pc' = "merged"
  /\ UNCHANGED <<collapseVars, repoVars, fundingVars, parseVars, mainVars,
                 fieldExisting, fieldIncoming, scriptVars>>

NextField == MergeField

SpecField == InitField /\ [][NextField]_vars

(***************************************************************************)
(* main: the command line, the input file, the two auxiliary datasets and  *)
(* the output file.  What the file system does (a file that cannot be read *)
(* or written) is chosen freely; what the program does with it is computed.*)
(***************************************************************************)
InputRecord(name) ==
  JObj(<<Entry(idField, JStr("p")), Entry(metadataField, JStr("2024-06-01")),
         Entry("name", JStr(name))>>)

\* A file: whether readFile resolves, and the text it resolves to.
File(readable, text) == [readable |-> readable, text |-> text]

MainInputs ==
  { File(FALSE, <<>>),
    File(TRUE, <<>>),
    File(TRUE, <<Line("open", JNull), Line("close", JNull)>>),
    File(TRUE, <<Line("junk", JNull)>>),
    File(TRUE, <<Line("object", InputRecord("Foo"))>>),
    File(TRUE, <<Line("object", InputRecord("Foo")),
                 Line("object", InputRecord("Bar"))>>),
    File(TRUE, <<Line("object", InputRecord("Foo")),
                 Line("object", JObj(<<Entry(idField, JStr("z")),
                                       Entry(metadataField, JStr("T")),
                                       Entry("opRewards", JStr("none"))>>))>>),
    File(TRUE, <<Line("open", JNull), Line("objectComma", InputRecord("Foo")),
                 Line("scalar", JNull), Line("close", JNull)>>) }

MainDatasets ==
  { File(FALSE, <<>>),
    File(TRUE, <<Line("junk", JNull), Line("junk", JNull)>>),
    File(TRUE, <<Line("object", Fund(JNum(1), JStr("p"), JStr("7"), JNum(5),
                                     JStr("2024-01-01")))>>),
    File(TRUE, <<Line("object", Fund(JNum(1), JStr("p"), JStr("7"), JNum(5),
                                     JStr("2024-01-01"))),
                 Line("object", Fund(JNum(2), JStr("p"), JStr("7"), JNum(6),
                                     JStr("2024-02-01")))>>),
    File(TRUE, <<Line("object", Fund(JNum(1), JStr("p"), JStr("7"), JNum(5),
                                     JStr("2024-01-01"))),
                 Line("object", Fund(JNum(3), JStr("p"), JStr(" 7"), JNum(7),
                                     Undefined))>>) }

\* loadFundingIndex: the index, or the Error it throws.
loadParsed(parsed) ==
  IF parsed.ok
  THEN [ok |-> TRUE, index |-> buildFundingIndex(EmptyMap, parsed.records)]
  ELSE [ok |-> FALSE, index |-> EmptyMap]

loadFundingIndex(file) ==
  IF file.readable THEN loadParsed(parseRecords(file.text))
  ELSE [ok |-> FALSE, index |-> EmptyMap]

\* if (!dataset) continue; attachFundingData(records, dataset, idField, field)
attachDataset(result, dataset, field) ==
  IF result.thrown THEN result
  ELSE IF dataset.k = "undefined" THEN result
  ELSE attachFundingData(result.records, dataset, field)

applyFundingAttachments(recordList, datasets) ==
  attachDataset(attachDataset([thrown |-> FALSE, records |-> recordList],
                              datasets.selfReportedFunding,
                              selfReportedFunding),
                datasets.opRewards, "opRewards")

\* Plays the part of failureExitCode in a variant of main that lets an
\* exception of the attachment pass.
failureExitCodeUncaught(failure) == IF failure = "exception" THEN 0 ELSE 1

\* process.exitCode = 1, in the handlers of main and in main().catch
failureExitCode(failure) == 1

\* Plays the part of afterLoad in a variant of main whose catch block does
\* not return.
afterLoadContinuing(loaded, next) == next

\* Where main goes on after loadFundingIndex: the catch block returns.
afterLoad(loaded, next) == IF loaded.ok THEN next ELSE "exited"

loopVars ==
  <<inputFile, records, byId, missingId, missingMetadata, olderRecordsSkipped,
    members, recollapsed>>

otherVars == <<loopVars, repoVars, fundingVars, fieldVars, scriptVars>>

InitMain ==
  /\ CollapseIdle /\ RepoIdle /\ FundingIdle /\ ParseIdle /\ FieldIdle
  /\ ScriptsIdle
  /\ pc = "main"
  /\ argv \in [inputPath : BOOLEAN, selfFundingPath : BOOLEAN,
               opRewardsPath : BOOLEAN]
  /\ attachments = [selfReportedFunding |-> Undefined, opRewards |-> Undefined]
  /\ exitCode = 0
  /\ outputWritten = "none"
  /\ summaryLogged = FALSE
  /\ failedAt = "none"

\* console.error(...); process.exitCode = 1; return
Fail(failure) ==
  /\ exitCode' = failureExitCode(failure)
  /\ failedAt' = failure
  /\ pc' = "exited"

Proceed(next) ==
  /\ pc' = next
  /\ UNCHANGED <<exitCode, failedAt>>

\* if (!inputPath) { ... }
Start ==
  /\ pc = "main"
  /\ IF ~argv.inputPath THEN Fail("usage") ELSE Proceed("read")
  /\ UNCHANGED <<otherVars, collapsed, summary, parseVars, argv, attachments,
                 outputWritten, summaryLogged>>

\* records = parseRecords(raw); collapseRecords(records, ...)
Parse(parsed) ==
  /\ parsedRecords' = parsed
  /\ IF parsed.ok
     THEN StoreResult(collapseRecords(parsed.records)) /\ Proceed("loadSelf")
     ELSE Fail("parse") /\ UNCHANGED <<collapsed, summary>>

\* raw = await readFile(absoluteInputPath), then the parse and the collapse
ReadInput(file) ==
  /\ pc = "read"
  /\ IF file.readable
     THEN rawText' = file.text /\ Parse(parseRecords(file.text))
     ELSE Fail("read") /\ UNCHANGED <<parseVars, collapsed, summary>>
  /\ UNCHANGED <<otherVars, argv, attachments, outputWritten, summaryLogged>>

Loaded(loaded, field, next) ==
  /\ pc' = afterLoad(loaded, next)
  /\ IF loaded.ok
     THEN /\ attachments' = [attachments EXCEPT ![field] = loaded.index]
          /\ UNCHANGED <<exitCode, failedAt>>
     ELSE /\ exitCode' = failureExitCode("load")
          /\ failedAt' = "load"
          /\ UNCHANGED attachments

\* if (pathArg) { try { ... = await loadFundingIndex(pathArg, label) } ... }
LoadDataset(requested, file, field, next) ==
  /\ IF requested THEN Loaded(loadFundingIndex(file), field, next)
     ELSE Proceed(next) /\ UNCHANGED attachments
  /\ UNCHANGED <<otherVars, collapsed, summary, parseVars, argv,
                 outputWritten, summaryLogged>>

LoadSelfFunding(file) ==
  /\ pc = "loadSelf"
  /\ LoadDataset(argv.selfFundingPath, file, "selfReportedFunding",
                 "loadRewards")

LoadOpRewards(file) ==
  /\ pc = "loadRewards"
  /\ LoadDataset(argv.opRewardsPath, file, "opRewards", "attach")

\* An exception of the attachment rejects main() and reaches main().catch.
AttachOutcome(result) ==
  IF result.thrown
  THEN Fail("exception") /\ UNCHANGED collapsed
  ELSE collapsed' = result.records /\ Proceed("write")

\* finalRecords = applyFundingAttachments(collapsed, idField, {...})
ApplyAttachments ==
  /\ pc = "attach"
  /\ AttachOutcome(applyFundingAttachments(collapsed, attachments))
  /\ UNCHANGED <<otherVars, summary, parseVars, argv, attachments,
                 outputWritten, summaryLogged>>

\* await writeFile(outputPath, ...); logSummary(...).  A writeFile that
\* fails leaves no file or a part of it.
WriteOutput(written) ==
  /\ pc = "write"
  /\ outputWritten' = written
  /\ IF written = "complete"
     THEN summaryLogged' = TRUE /\ Proceed("done")
     ELSE Fail("write") /\ UNCHANGED summaryLogged
  /\ UNCHANGED <<otherVars, collapsed, summary, parseVars, argv, attachments>>

NextMain ==
  \/ Start
  \/ \E file \in MainInputs : ReadInput(file)
  \/ \E file \in MainDatasets : LoadSelfFunding(file)
  \/ \E file \in MainDatasets : LoadOpRewards(file)
  \/ ApplyAttachments
  \/ \E written \in {"none", "partial", "complete"} : WriteOutput(written)

SpecMain == InitMain /\ [][NextMain]_vars

(***************************************************************************)
(* validate-results: the check of results.json against taxonomy.json.      *)
(* A file that holds no JSON, or the JSON value null, is the value null.   *)
(***************************************************************************)
MaxEntries == 3

isNonEmptyString(x) == x.k = "str" /\ Len(Trim(x.v)) > 0

isOptionalString(x) == x.k \in {"undefined", "null", "str"}

\* new URL(x) succeeds and its protocol is http: or https:, for the texts
\* that write a scheme, two slashes and a host.
isValidHttpUrl(x) ==
  /\ isNonEmptyString(x)
  /\ \/ StartsWith(Trim(x.v), "http://") /\ Len(Trim(x.v)) > 7
     \/ StartsWith(Trim(x.v), "https://") /\ Len(Trim(x.v)) > 8

\* entry.<key>; an array has none of the keys read.
Field(entry, key) == IF entry.k = "obj" THEN Get(entry, key) ELSE Undefined

\* Plays the part of allowedTagsOf in a variant of the script that tests
\* no tag against the taxonomy.
allowedTagsAny(tagsList) == {"defi", "nft", "zk"}

\* new Set((tagsList || []).map((t) => t.trim()))
allowedTagsOf(tagsList) ==
  IF tagsList.k = "list"
  THEN {Trim(tagsList.v[i].v) : i \in 1..Len(tagsList.v)}
  ELSE {}

\* The names of the category definitions that are non-empty strings.
allowedCategoriesOf(categoryDefs) ==
  IF categoryDefs.k = "list"
  THEN {Field(categoryDefs.v[i], "name").v :
          i \in {j \in 1..Len(categoryDefs.v) :
                   isNonEmptyString(Field(categoryDefs.v[j], "name"))}}
  ELSE {}

\* The two checks of the taxonomy call fail.
taxonomyFails(tax) ==
  \/ tax.tags.k # "list"
  \/ \E i \in 1..Len(tax.tags.v) : ~isNonEmptyString(tax.tags.v[i])
  \/ tax.definitions.k # "list"

\* (tagsList || []).map((t) => t.trim()) throws a TypeError when tagsList
\* is no array or holds a value that is no string.
taxonomyThrows(tax) ==
  \/ tax.tags.k \notin {"list", "undefined", "null"}
  \/ tax.tags.k = "list" /\ \E i \in 1..Len(tax.tags.v) : tax.tags.v[i].k # "str"

reposFail(repos) ==
  \/ repos.k # "list"
  \/ Len(repos.v) < 1
  \/ \E r \in 1..Len(repos.v) : ~isValidHttpUrl(repos.v[r])

tagsFail(tags, allowedTags) ==
  \/ tags.k # "list"
  \/ Len(tags.v) < 1
  \/ \E t \in 1..Len(tags.v) :
       ~isNonEmptyString(tags.v[t]) \/ tags.v[t].v \notin allowedTags

\* The body of the loop over results: whether fail is called for the entry.
entryFails(entry, seen, allowedTags, allowedCategories) ==
  \/ entry.k \notin {"obj", "list"}
  \/ ~isNonEmptyString(Field(entry, "id"))
  \/ Field(entry, "id").v \in seen
  \/ ~isNonEmptyString(Field(entry, "name"))
  \/ ~isNonEmptyString(Field(entry, "description"))
  \/ ~isOptionalString(Field(entry, "llmstext"))
  \/ reposFail(Field(entry, "repos"))
  \/ tagsFail(Field(entry, "tags"), allowedTags)
  \/ ~isNonEmptyString(Field(entry, "category"))
  \/ Field(entry, "category").v \notin allowedCategories

\* seenIds.add(entry.id)
seenAfter(entry, seen) ==
  IF isNonEmptyString(Field(entry, "id"))
  THEN seen \cup {Field(entry, "id").v}
  ELSE seen

Project(id, name, repos, tags, category) ==
  JObj(<<Entry("id", id), Entry("name", name),
         Entry("description", JStr("d")), Entry("repos", JList(repos)),
         Entry("tags", JList(tags)), Entry("category", category)>>)

ResultEntries ==
  { Project(JStr("a"), JStr("n"), <<JStr("https://x")>>, <<JStr("defi")>>,
            JStr("Wallets")),
    Project(JStr("b"), JStr("n"), <<JStr("http://y"), JStr("https://x")>>,
            <<JStr("defi"), JStr("nft")>>, JStr("Wallets")),
    Project(JStr("c"), JStr(" "), <<JStr("https://x")>>, <<JStr("nft")>>,
            JStr("Wallets")),
    Project(JStr("d"), JStr("n"), <<>>, <<JStr("nft")>>, JStr("Wallets")),
    Project(JStr("e"), JStr("n"), <<JStr("ftp://x")>>, <<JStr("nft")>>,
            JStr("Wallets")),
    Project(JStr("f"), JStr("n"), <<JStr("https://x")>>, <<JStr("zk")>>,
            JStr("Wallets")),
    Project(JStr("g"), JStr("n"), <<JStr("https://x")>>, <<JStr("nft")>>,
            JStr("Other")),
    Project(JNull, JStr("n"), <<JStr("https://x")>>, <<JStr("nft")>>,
            JStr("Wallets")),
    JNull }

Taxonomy(tags, definitions) == [tags |-> tags, definitions |-> definitions]

WalletsDefinition == JList(<<JObj(<<Entry("name", JStr("Wallets"))>>)>>)

Taxonomies ==
  { JNull,
    Taxonomy(JList(<<JStr("defi"), JStr("nft")>>), WalletsDefinition),
    Taxonomy(JList(<<JStr("defi "), JStr("nft")>>), WalletsDefinition),
    Taxonomy(JList(<<JStr("defi"), JStr("nft"), JStr("")>>),
             WalletsDefinition),
    Taxonomy(JList(<<JStr("defi"), JNum(5)>>), WalletsDefinition),
    Taxonomy(JList(<<JStr("defi"), JStr("nft")>>), Undefined) }

ResultFiles ==
  {JNull, JObj(<<>>)}
    \cup {JList(entries) :
            entries \in UNION {[1..n -> ResultEntries] : n \in 0..MaxEntries}}

InitValidate ==
  /\ CollapseIdle /\ RepoIdle /\ FundingIdle /\ ParseIdle /\ FieldIdle
  /\ argv = <<>> /\ attachments = <<>> /\ outputWritten = "none"
  /\ summaryLogged = FALSE /\ failedAt = "none"
  /\ exitCode = 0
  /\ pc = "validate"
  /\ taxonomy \in Taxonomies
  /\ resultsFile \in ResultFiles
  /\ entryIndex = 0
  /\ seenIds = {}
  /\ report = "none"
  /\ ProjectIdle /\ SessionIdle /\ CategorizeIdle

validateFrame ==
  <<collapseVars, repoVars, fundingVars, parseVars, fieldVars, argv,
    attachments, outputWritten, summaryLogged, failedAt, taxonomy,
    resultsFile, projectVars, sessionVars, categorizeVars>>

\* From the two loadJson calls to the test that results is an array.
CheckFiles ==
  /\ pc = "validate"
  /\ IF taxonomy = JNull \/ resultsFile = JNull
     THEN exitCode' = 1 /\ pc' = "exited"
     ELSE IF taxonomyThrows(taxonomy)
     THEN exitCode' = 1 /\ pc' = "exited"
     ELSE IF resultsFile.k # "list"
     THEN exitCode' = 1 /\ pc' = "exited"
     ELSE /\ exitCode' = IF taxonomyFails(taxonomy) THEN 1 ELSE 0
          /\ pc' = "entries"
  /\ UNCHANGED <<validateFrame, entryIndex, seenIds, report>>

\* for (let i = 0; i < results.length; i++) { ... }
CheckEntry ==
  /\ pc = "entries"
  /\ entryIndex < Len(resultsFile.v)
  /\ exitCode' = IF entryFails(resultsFile.v[entryIndex + 1], seenIds,
                               allowedTagsOf(taxonomy.tags),
                               allowedCategoriesOf(taxonomy.definitions))
                 THEN 1 ELSE exitCode
  /\ seenIds' = seenAfter(resultsFile.v[entryIndex + 1], seenIds)
  /\ entryIndex' = entryIndex + 1
  /\ UNCHANGED <<validateFrame, pc, report>>

\* if (process.exitCode && process.exitCode !== 0) { ... } else { ... }
ReportValidation ==
  /\ pc = "entries"
  /\ entryIndex = Len(resultsFile.v)
  /\ report' = IF exitCode # 0 THEN "failed" ELSE "passed"
  /\ pc' = "exited"
  /\ UNCHANGED <<validateFrame, exitCode, entryIndex, seenIds>>

NextValidate == CheckFiles \/ CheckEntry \/ ReportValidation

SpecValidate == InitValidate /\ [][NextValidate]_vars

(***************************************************************************)
(* add-project-tags: the tag vocabulary, the retries of one request to     *)
(* the language model, and the loop of main over the projects.             *)
(***************************************************************************)
MAX_RETRIES == 5

INITIAL_RETRY_DELAY == 2000

DELAY_BETWEEN_REQUESTS == 2000

MAX_TAGS == 10

UpperLetters == Chars("ABCDEFGHIJKLMNOPQRSTUVWXYZ")

LowerLetters == Chars("abcdefghijklmnopqrstuvwxyz")

SlugChars == Range(Chars("abcdefghijklmnopqrstuvwxyz0123456789+-"))

\* F of the value of x, and F of the values of x and y: the arguments are
\* evaluated once, before F is.
Call(F(_), x) == CHOOSE r \in {F(v) : v \in {x}} : TRUE

Call2(F(_, _), x, y) == CHOOSE r \in {F(v, w) : v \in {x}, w \in {y}} : TRUE

lowerChar(c) ==
  IF \E n \in 1..26 : UpperLetters[n] = c
  THEN LowerLetters[CHOOSE n \in 1..26 : UpperLetters[n] = c]
  ELSE c

RECURSIVE toLowerCase(_)
toLowerCase(s) ==
  IF s = "" THEN ""
  ELSE lowerChar(SubSeq(s, 1, 1)) \o Call(toLowerCase, SubSeq(s, 2, Len(s)))

\* replace(/[\s_]+/g, "-") and replace(/[^a-z0-9+-]/g, "-"): every character
\* that is no letter, digit, plus or hyphen ends as a hyphen.
RECURSIVE dashed(_)
dashed(s) ==
  IF s = "" THEN ""
  ELSE (IF SubSeq(s, 1, 1) \in SlugChars THEN SubSeq(s, 1, 1) ELSE "-")
         \o Call(dashed, SubSeq(s, 2, Len(s)))

\* replace(/-+/g, "-")
RECURSIVE collapseDashes(_)
collapseDashes(s) ==
  IF Len(s) < 2 THEN s
  ELSE IF SubSeq(s, 1, 2) = "--"
  THEN Call(collapseDashes, SubSeq(s, 2, Len(s)))
  ELSE SubSeq(s, 1, 1) \o Call(collapseDashes, SubSeq(s, 2, Len(s)))

stripLeadingDash(s) ==
  IF StartsWith(s, "-") THEN SubSeq(s, 2, Len(s)) ELSE s

stripTrailingDash(s) ==
  IF Len(s) > 0 /\ SubSeq(s, Len(s), Len(s)) = "-"
  THEN SubSeq(s, 1, Len(s) - 1)
  ELSE s

\* replace(/^-|-$/g, "")
stripDashes(s) == stripTrailingDash(stripLeadingDash(s))

canonicalizeTagString(tag) ==
  Call(stripDashes,
       Call(collapseDashes,
            Call(dashed, Call(Trim, Call(toLowerCase, tag)))))

\* The aliases whose canonical name and canonical target are both non-empty;
\* a later alias of the same canonical name replaces an earlier one.
NoAliases == [a \in {} |-> ""]

RECURSIVE loadAliases(_, _)
loadAliases(aliases, aliasMap) ==
  IF aliases = <<>> THEN aliasMap
  ELSE loadAliases(
         Tail(aliases),
         IF canonicalizeTagString(aliases[1][1]) = ""
              \/ canonicalizeTagString(aliases[1][2]) = ""
         THEN aliasMap
         ELSE [a \in DOMAIN aliasMap \cup {canonicalizeTagString(aliases[1][1])}
                 |-> IF a = canonicalizeTagString(aliases[1][1])
                     THEN canonicalizeTagString(aliases[1][2])
                     ELSE aliasMap[a]])

RECURSIVE canonicalTags(_)
canonicalTags(tags) ==
  IF tags = <<>> THEN <<>>
  ELSE IF canonicalizeTagString(tags[1]) = "" THEN canonicalTags(Tail(tags))
  ELSE <<canonicalizeTagString(tags[1])>> \o canonicalTags(Tail(tags))

\* canonicalizeTagString(raw.fallbackTag || "general") || "general"
loadFallbackTag(rawFallback) ==
  IF rawFallback = "" \/ canonicalizeTagString(rawFallback) = ""
  THEN "general"
  ELSE canonicalizeTagString(rawFallback)

withFallback(allowedTags, fallbackTag) ==
  IF fallbackTag \in Range(allowedTags)
  THEN allowedTags
  ELSE Append(allowedTags, fallbackTag)

loadTagConfig(raw) ==
  [allowedTags |->
     withFallback(canonicalTags(raw.allowedTags), loadFallbackTag(raw.fallbackTag)),
   allowedTagSet |->
     Range(canonicalTags(raw.allowedTags)) \cup {loadFallbackTag(raw.fallbackTag)},
   aliasMap |-> loadAliases(raw.aliases, NoAliases),
   fallbackTag |-> loadFallbackTag(raw.fallbackTag)]

\* config.aliasMap.get(canonical) || canonical
aliasTarget(canonical, config) ==
  IF canonical \in DOMAIN config.aliasMap
  THEN config.aliasMap[canonical]
  ELSE canonical

\* The result is the empty sequence for null and the one tag otherwise.
allowedTarget(target, config) ==
  IF target \in config.allowedTagSet THEN <<target>> ELSE <<>>

normalizeCanonical(canonical, config) ==
  IF canonical = "" THEN <<>>
  ELSE allowedTarget(aliasTarget(canonical, config), config)

normalizeTag(tag, config) ==
  Call(LAMBDA canonical : normalizeCanonical(canonical, config),
       canonicalizeTagString(tag))

pushUnseen(normalized, found) ==
  IF found = <<>> \/ found[1] \in Range(normalized)
  THEN normalized
  ELSE normalized \o found

RECURSIVE normalizeInto(_, _, _)
normalizeInto(tags, config, normalized) ==
  IF tags = <<>> THEN normalized
  ELSE Call2(LAMBDA rest, pushed : normalizeInto(rest, config, pushed),
             Tail(tags),
             pushUnseen(normalized, normalizeTag(tags[1], config)))

normalizeTags(tags, config) == normalizeInto(tags, config, <<>>)

\* Plays the part of clampTags in a variant of the script that keeps every
\* tag.
clampTagsNone(tags) == tags

clampTags(tags) ==
  IF Len(tags) > MAX_TAGS THEN SubSeq(tags, 1, MAX_TAGS) ELSE tags

ensureFallback(tags, fallback) == IF Len(tags) = 0 THEN <<fallback>> ELSE tags

\* A project category that is null or empty gives no tag.
generateDefaultTags(proj, config) ==
  ensureFallback(
    clampTags(IF proj.category = "" THEN <<>>
              ELSE normalizeTag(proj.category, config)),
    config.fallbackTag)

\* The tags of the default path and of the error path of processProject.
defaultTags(proj, config) ==
  ensureFallback(clampTags(generateDefaultTags(proj, config)),
                 config.fallbackTag)

\* split(",")
RECURSIVE splitComma(_, _)
splitComma(s, piece) ==
  IF s = "" THEN <<piece>>
  ELSE IF SubSeq(s, 1, 1) = ","
  THEN <<piece>> \o Call2(splitComma, SubSeq(s, 2, Len(s)), "")
  ELSE Call2(splitComma, SubSeq(s, 2, Len(s)), piece \o SubSeq(s, 1, 1))

\* replace(/[\x27"]/g, ""), for the texts without U+0027.
RECURSIVE stripQuotes(_)
stripQuotes(s) ==
  IF s = "" THEN ""
  ELSE (IF SubSeq(s, 1, 1) = "\"" THEN "" ELSE SubSeq(s, 1, 1))
         \o Call(stripQuotes, SubSeq(s, 2, Len(s)))

RECURSIVE solidPieces(_)
solidPieces(pieces) ==
  IF pieces = <<>> THEN <<>>
  ELSE IF stripQuotes(Trim(pieces[1])) = ""
  THEN Call(solidPieces, Tail(pieces))
  ELSE <<JStr(stripQuotes(Trim(pieces[1])))>> \o Call(solidPieces, Tail(pieces))

\* The catch of JSON.parse: content.v is the capture of the "tags": [...]
\* pattern when the pattern matches, and there is none otherwise.
recoveredTags(content, config) ==
  IF content.v = <<>>
  THEN <<JStr(config.fallbackTag)>>
  ELSE solidPieces(splitComma(content.v[1], ""))

\* result.tags after the test of line 953, for a parsed value that is an
\* object or an array; thrown for null and for a primitive value, of which
\* no property can be read or set.
parsedTags(value, config) ==
  IF value.k \notin {"obj", "list"}
  THEN [thrown |-> TRUE, tags |-> <<>>]
  ELSE IF Field(value, "tags").k # "list"
  THEN [thrown |-> FALSE, tags |-> <<JStr(config.fallbackTag)>>]
  ELSE [thrown |-> FALSE, tags |-> Field(value, "tags").v]

resultTags(content, config) ==
  IF content.k = "text"
  THEN [thrown |-> FALSE, tags |-> recoveredTags(content, config)]
  ELSE parsedTags(content.v, config)

textsOf(values) == [n \in 1..Len(values) |-> values[n].v]

\* Lines 957 to 961; a tag that is no string makes canonicalizeTagString
\* throw.
normalizedResult(result, config) ==
  IF result.thrown \/ \E n \in 1..Len(result.tags) : result.tags[n].k # "str"
  THEN [thrown |-> TRUE, tags |-> <<>>]
  ELSE [thrown |-> FALSE,
        tags |-> ensureFallback(
                   clampTags(normalizeTags(textsOf(result.tags), config)),
                   config.fallbackTag)]

\* What generateTagsWithLLM makes of an ok response.
tagsOfContent(content, config) ==
  normalizedResult(resultTags(content, config), config)

\* The tags processProject returns for an ok response.
tagsOfResponse(content, proj, config) ==
  IF tagsOfContent(content, config).thrown
  THEN defaultTags(proj, config)
  ELSE ensureFallback(clampTags(tagsOfContent(content, config).tags),
                      config.fallbackTag)

\* Plays the part of retryDelay in a variant of the script that waits the
\* same time before every retry.
retryDelayFixed(count) == INITIAL_RETRY_DELAY

\* INITIAL_RETRY_DELAY * Math.pow(2, retryCount)
retryDelay(count) == INITIAL_RETRY_DELAY * 2^count

TagConfigFiles ==
  { [allowedTags |-> <<"defi", "nft", "wallet", "bridge", "dao", "oracle",
                       "l2", "sdk", "cli", "zk", "rust", "Dev Tools">>,
     aliases |-> << <<"Decentralized Finance", "defi">>,
                    <<"gaming", "games">> >>,
     fallbackTag |-> ""],
    [allowedTags |-> <<"DeFi", "nft", "misc", "_">>,
     aliases |-> << <<"?", "nft">> >>,
     fallbackTag |-> " Misc "] }

\* A project after normalizeProject; a null description or category is the
\* empty string here, which takes the same branches.
TagProject(id, description, category, tags) ==
  [id |-> id, description |-> description, category |-> category,
   tags |-> tags]

TagProjects ==
  { TagProject("a", "A lending protocol for DeFi", "DeFi", <<>>),
    TagProject("b", "short", "Gaming", <<>>),
    TagProject("c", "Bridges NFTs across rollups", "", <<"old">>),
    TagProject("a", "", "NFT", <<>>) }

JObjTags(tags) == JObj(<<Entry("tags", JList(tags))>>)

\* The contents of ok responses: the value JSON.parse gives, or a text that
\* JSON.parse rejects with the capture of its "tags": [...] pattern, if any.
Contents ==
  << [k |-> "json", v |-> JObjTags(<<JStr("DeFi"), JStr("nft"), JStr("defi")>>)],
     [k |-> "json",
      v |-> JObjTags(<<JStr("defi"), JStr("nft"), JStr("wallet"),
                       JStr("bridge"), JStr("dao"), JStr("oracle"),
                       JStr("l2"), JStr("sdk"), JStr("cli"), JStr("zk"),
                       JStr("rust"), JStr("dev tools")>>)],
     [k |-> "json",
      v |-> JObjTags(<<JStr("Decentralized Finance"), JStr("solana")>>)],
     [k |-> "json", v |-> JObjTags(<<JStr("solana")>>)],
     [k |-> "json", v |-> JObj(<<>>)],
     [k |-> "json", v |-> JObjTags(<<JStr("nft"), JNum(5)>>)],
     [k |-> "json", v |-> JNull],
     [k |-> "text", v |-> <<"\"wallet\", \"NFT\",">>],
     [k |-> "text", v |-> <<>>] >>

Tagged(proj, tags) == [id |-> proj.id, tags |-> tags]

InitProject ==
  /\ CollapseIdle /\ RepoIdle /\ FundingIdle /\ ParseIdle /\ MainIdle
  /\ FieldIdle /\ ValidateIdle /\ SessionIdle /\ CategorizeIdle
  /\ pc = "process"
  /\ \E raw \in TagConfigFiles : tagConfig = loadTagConfig(raw)
  /\ project \in TagProjects
  /\ retryCount = 0
  /\ requests = 0
  /\ waits = <<>>
  /\ taggedProject = Undefined
  /\ tagPath = "none"

projectFrame ==
  <<collapseVars, repoVars, fundingVars, parseVars, mainVars, fieldVars,
    validateVars, sessionVars, categorizeVars, tagConfig, project>>

\* processProject returns the project with the tags.
Return(tags, path) ==
  /\ taggedProject' = Tagged(project, tags)
  /\ tagPath' = path
  /\ pc' = "returned"

\* processProject up to the call of generateTagsWithLLM.
ProcessProject ==
  /\ pc = "process"
  /\ IF project.description = "" \/ Len(project.description) < 20
     THEN /\ Return(defaultTags(project, tagConfig), "default")
          /\ UNCHANGED <<retryCount, requests, waits>>
     ELSE /\ pc' = "fetch"
          /\ retryCount' = 0
          /\ requests' = 0
          /\ waits' = <<>>
          /\ UNCHANGED <<taggedProject, tagPath>>
  /\ UNCHANGED projectFrame

\* await fetch(llmConfig.baseUrl, ...)
Fetch ==
  /\ pc = "fetch"
  /\ requests' = requests + 1
  /\ pc' = "response"
  /\ UNCHANGED <<projectFrame, retryCount, waits, taggedProject, tagPath>>

\* response.status === 429: the wait of lines 900 to 908 starts.
RateLimited ==
  /\ pc = "response"
  /\ waits' = Append(waits, retryDelay(retryCount))
  /\ pc' = "rateLimitSleep"
  /\ UNCHANGED <<projectFrame, retryCount, requests, taggedProject, tagPath>>

\* The wait ends: the next call, or the error of line 918, which the catch
\* of line 964 throws again and the catch of processProject handles.
RateLimitWake ==
  /\ pc = "rateLimitSleep"
  /\ IF retryCount < MAX_RETRIES
     THEN /\ retryCount' = retryCount + 1
          /\ pc' = "fetch"
          /\ UNCHANGED <<taggedProject, tagPath>>
     ELSE /\ Return(defaultTags(project, tagConfig), "error")
          /\ UNCHANGED retryCount
  /\ UNCHANGED <<projectFrame, requests, waits>>

\* An error whose message includes "fetch": a rejected fetch, or an error
\* response whose text has the word.
FetchFailed ==
  /\ pc = "response"
  /\ IF retryCount < MAX_RETRIES
     THEN /\ waits' = Append(waits, retryDelay(retryCount))
          /\ pc' = "networkSleep"
          /\ UNCHANGED <<taggedProject, tagPath>>
     ELSE /\ Return(defaultTags(project, tagConfig), "error")
          /\ UNCHANGED waits
  /\ UNCHANGED <<projectFrame, retryCount, requests>>

NetworkWake ==
  /\ pc = "networkSleep"
  /\ retryCount' = retryCount + 1
  /\ pc' = "fetch"
  /\ UNCHANGED <<projectFrame, requests, waits, taggedProject, tagPath>>

\* Any other error: a response that is not ok, or a body without
\* choices[0].message.content.
RequestRejected ==
  /\ pc = "response"
  /\ Return(defaultTags(project, tagConfig), "error")
  /\ UNCHANGED <<projectFrame, retryCount, requests, waits>>

\* An ok response with a content.
Respond ==
  /\ pc = "response"
  /\ \E c \in 1..Len(Contents) :
       Return(tagsOfResponse(Contents[c], project, tagConfig),
              IF tagsOfContent(Contents[c], tagConfig).thrown
              THEN "error" ELSE "llm")
  /\ UNCHANGED <<projectFrame, retryCount, requests, waits>>

NextProject ==
  \/ ProcessProject \/ Fetch \/ RateLimited \/ RateLimitWake \/ FetchFailed
  \/ NetworkWake \/ RequestRejected \/ Respond

SpecProject == InitProject /\ [][NextProject]_vars

\* Every awaited fetch and every sleep settles.
SpecProjectFair == SpecProject /\ WF_vars(NextProject)

(***************************************************************************)
(* main of add-project-tags, over several runs of the script: the          *)
(* checkpoint file and the tagged output file stay between the runs.       *)
(* The runs are started without --restart and without a start index.      *)
(***************************************************************************)
MaxProjects == 3

MaxSessions == 2

BATCH_SIZE == 2

ProjectLists ==
  UNION {[1..n -> {p \in TagProjects : p.id # "b"}] : n \in 1..MaxProjects}

Limits == {-1, 1, 2}

\* projects[i], with the index of the loop variable, which starts at 0.
ProjectAt(i) == Tagged(rawProjects[i + 1], rawProjects[i + 1].tags)

Min(a, b) == IF a < b THEN a ELSE b

Max(a, b) == IF a > b THEN a ELSE b

\* merged["tags"] = tagged.tags where the tagged project has tags, and the
\* raw project as it is otherwise.
mergeProjectsWithTags(raws, tagged) ==
  [n \in 1..Len(raws) |->
     IF n <= Len(tagged) /\ tagged[n].tags # <<>>
     THEN Tagged(raws[n], tagged[n].tags)
     ELSE Tagged(raws[n], raws[n].tags)]

\* Plays the part of needsDelay in a variant of the script that never
\* waits between two projects.
needsDelayNever(i, done) == FALSE

\* Lines 1247 to 1253: whether sleep(DELAY_BETWEEN_REQUESTS) is awaited.
needsDelay(i, done) ==
  i < Len(rawProjects) - 1 /\ ~(limit # -1 /\ done >= limit)

\* Lines 1255 to 1260.
shouldCheckpoint(i) ==
  /\ processedThisRun > 0
  /\ \/ processedThisRun % BATCH_SIZE = 0
     \/ i = Len(rawProjects) - 1
     \/ limit # -1 /\ processedThisRun >= limit

\* The index main starts from: after the checkpoint, within the projects.
startIndexOf(checkpoint, total) ==
  IF checkpoint = Undefined THEN 0
  ELSE Max(0, Min(checkpoint.lastProcessedIndex + 1, total))

InitTag ==
  /\ CollapseIdle /\ RepoIdle /\ FundingIdle /\ ParseIdle /\ MainIdle
  /\ FieldIdle /\ ValidateIdle /\ CategorizeIdle
  /\ pc = "start"
  /\ tagConfig = loadTagConfig(CHOOSE raw \in TagConfigFiles : raw.fallbackTag = "")
  /\ project = Undefined
  /\ retryCount = 0
  /\ requests = 0
  /\ waits = <<>>
  /\ taggedProject = Undefined
  /\ tagPath = "none"
  /\ rawProjects \in ProjectLists
  /\ limit = -1
  /\ checkpointFile = Undefined
  /\ taggedOutput = <<>>
  /\ startIndex = 0
  /\ projectIndex = 0
  /\ taggedProjects = <<>>
  /\ processedIds = {}
  /\ processedThisRun = 0
  /\ lastProcessedIndex = -1
  /\ highestTaggedIndex = -1
  /\ lastCheckpointIndex = -1
  /\ slept = FALSE
  /\ generated = [n \in 1..Len(rawProjects) |-> <<>>]
  /\ sessionCount = 0

tagFrame ==
  <<collapseVars, repoVars, fundingVars, parseVars, mainVars, fieldVars,
    validateVars, categorizeVars, tagConfig, rawProjects>>

\* main, from loadCheckpoint to the head of the loop over the projects.
StartSession ==
  /\ pc \in {"start", "end"}
  /\ sessionCount < MaxSessions
  /\ sessionCount' = sessionCount + 1
  /\ limit' \in Limits
  /\ startIndex' = startIndexOf(checkpointFile, Len(rawProjects))
  /\ projectIndex' = startIndex'
  /\ processedIds' = IF checkpointFile = Undefined THEN {}
                     ELSE checkpointFile.processedIds
  /\ taggedProjects' = [n \in 1..startIndex' |-> ProjectAt(n - 1)]
  /\ processedThisRun' = 0
  /\ highestTaggedIndex' = Min(startIndex' - 1, Len(rawProjects) - 1)
  /\ lastProcessedIndex' = IF checkpointFile = Undefined THEN startIndex' - 1
                           ELSE checkpointFile.lastProcessedIndex
  /\ lastCheckpointIndex' = IF checkpointFile = Undefined THEN -1
                            ELSE checkpointFile.lastProcessedIndex
  /\ slept' = FALSE
  /\ pc' = "loop"
  /\ UNCHANGED <<tagFrame, project, retryCount, requests, waits, taggedProject,
                 tagPath, checkpointFile, taggedOutput, generated>>

\* The head of the loop: its end, the limit, a duplicate, or the call of
\* processProject.
LoopStep ==
  /\ pc = "loop"
  /\ IF projectIndex >= Len(rawProjects)
          \/ (limit # -1 /\ processedThisRun >= limit)
     THEN /\ pc' = "afterLoop"
          /\ UNCHANGED <<project, projectIndex, taggedProjects,
                         highestTaggedIndex>>
     ELSE IF ProjectAt(projectIndex).id \in processedIds
     THEN /\ taggedProjects' = Append(taggedProjects, ProjectAt(projectIndex))
          /\ highestTaggedIndex' = projectIndex
          /\ projectIndex' = projectIndex + 1
          /\ UNCHANGED <<pc, project>>
     ELSE /\ project' = rawProjects[projectIndex + 1]
          /\ pc' = "process"
          /\ UNCHANGED <<projectIndex, taggedProjects, highestTaggedIndex>>
  /\ UNCHANGED <<tagFrame, retryCount, requests, waits, taggedProject, tagPath,
                 limit, checkpointFile, taggedOutput, startIndex, processedIds,
                 processedThisRun, lastProcessedIndex, lastCheckpointIndex,
                 slept, generated, sessionCount>>

\* Lines 1240 to 1253: processProject has returned.
Push ==
  /\ pc = "returned"
  /\ sessionCount > 0
  /\ taggedProjects' = Append(taggedProjects, taggedProject)
  /\ processedIds' = processedIds \cup {project.id}
  /\ processedThisRun' = processedThisRun + 1
  /\ lastProcessedIndex' = projectIndex
  /\ highestTaggedIndex' = projectIndex
  /\ generated' = [generated EXCEPT ![projectIndex + 1] = taggedProject.tags]
  /\ slept' = FALSE
  /\ pc' = IF needsDelay(projectIndex, processedThisRun + 1)
           THEN "delay" ELSE "checkpoint"
  /\ retryCount' = 0
  /\ requests' = 0
  /\ waits' = <<>>
  /\ tagPath' = "none"
  /\ UNCHANGED <<tagFrame, project, taggedProject, limit, checkpointFile,
                 taggedOutput, startIndex, projectIndex, lastCheckpointIndex,
                 sessionCount>>

\* sleep(DELAY_BETWEEN_REQUESTS) ends.
Delay ==
  /\ pc = "delay"
  /\ slept' = TRUE
  /\ pc' = "checkpoint"
  /\ UNCHANGED <<tagFrame, projectVars, rawProjects, limit, checkpointFile,
                 taggedOutput, startIndex, projectIndex, taggedProjects,
                 processedIds, processedThisRun, lastProcessedIndex,
                 highestTaggedIndex, lastCheckpointIndex, generated,
                 sessionCount>>

\* Lines 1255 to 1303, and the step of the loop.
Checkpoint ==
  /\ pc = "checkpoint"
  /\ IF shouldCheckpoint(projectIndex)
     THEN /\ checkpointFile' = [lastProcessedIndex |-> projectIndex,
                                processedIds |-> processedIds]
          /\ taggedOutput' = mergeProjectsWithTags(rawProjects, taggedProjects)
          /\ lastCheckpointIndex' = projectIndex
     ELSE UNCHANGED <<checkpointFile, taggedOutput, lastCheckpointIndex>>
  /\ projectIndex' = projectIndex + 1
  /\ pc' = "loop"
  /\ UNCHANGED <<tagFrame, projectVars, limit, startIndex, taggedProjects,
                 processedIds, processedThisRun, lastProcessedIndex,
                 highestTaggedIndex, slept, generated, sessionCount>>

\* The projects from nextIndex on, as they are in the input.
restOfProjects(nextIndex) ==
  [n \in 1..(Len(rawProjects) - nextIndex) |-> ProjectAt(nextIndex + n - 1)]

\* Lines 1306 to 1360: the rest of the projects, the last checkpoint and the
\* final file.
FinishSession ==
  /\ pc = "afterLoop"
  /\ taggedProjects' =
       taggedProjects \o restOfProjects(Max(highestTaggedIndex + 1, startIndex))
  /\ checkpointFile' =
       IF processedThisRun > 0 /\ lastProcessedIndex >= 0
            /\ lastCheckpointIndex # lastProcessedIndex
       THEN [lastProcessedIndex |-> lastProcessedIndex,
             processedIds |-> processedIds]
       ELSE checkpointFile
  /\ taggedOutput' = mergeProjectsWithTags(rawProjects, taggedProjects')
  /\ pc' = "end"
  /\ UNCHANGED <<tagFrame, projectVars, limit, startIndex, projectIndex,
                 processedIds, processedThisRun, lastProcessedIndex,
                 highestTaggedIndex, lastCheckpointIndex, slept, generated,
                 sessionCount>>

NextTag ==
  \/ StartSession \/ LoopStep \/ Push \/ Delay \/ Checkpoint \/ FinishSession
  \/ NextProject

SpecTag == InitTag /\ [][NextTag]_vars

(***************************************************************************)
(* categorize-projects: the keyword scores and the suggested category.     *)
(***************************************************************************)
CATEGORIES ==
  << [name |-> "Smart Contract Development & Toolchains",
      keywords |-> <<
       "foundry", "brownie", "solc-select", "prettier solidity", "solady",
       "solidity", "vyper", "cli", "hardhat", "smart contract", "compiler",
       "formatting", "deploy", "development environment", "toolchain",
       "vscode", "extension", "plugin", "ide", "debug">>],
     [name |-> "Security, Testing & Formal Verification",
      keywords |-> <<
       "slither", "medusa", "ercx", "kevm", "crytic-properties",
       "kurtosis", "security", "fuzz", "testing", "static-analysis",
       "runtime-verification", "audit", "vulnerability", "correctness",
       "formal verification", "verification", "proof", "scanning",
       "detector", "protection">>],
     [name |-> "Client Libraries & SDKs (Front-End)",
      keywords |-> <<
       "wagmi", "ethers.js", "ethers", "tevm", "alloy", "superbeam",
       "frontend", "json-rpc", "contract-interaction", "sdk", "ui",
       "client library", "dapp", "wallet connection", "react", "vue",
       "web3", "library", "api", "wrapper", "typescript", "javascript",
       "python", "golang", "rust", "client", "connect", "npm", "package">>],
     [name |-> "Data, Analytics & Tracing",
      keywords |-> <<
       "rindexer", "evmstate", "nftscan", "zkcodex", "analytics",
       "indexing", "transaction-decoding", "storage-layout", "tracing",
       "visualization", "monitor", "data", "explorer", "decoder",
       "dashboard", "metrics", "stats", "query", "graph", "beacon chain",
       "beacon">>],
     [name |-> "Transaction & Wallet Infrastructure",
      keywords |-> <<
       "skandha", "erc-4337", "bundler", "evm-mcp-server", "etherml",
       "libethc", "go-ethereum-hdwallet", "transaction-management",
       "wallet", "account-abstraction", "aa", "infrastructure", "signing",
       "transaction creation", "pay", "payment", "gas", "rpc", "multicall",
       "node", "provider">>],
     [name |-> "Cross-Chain & Interoperability",
      keywords |-> <<
       "daimo pay", "bloctopus", "enso build", "titan layer",
       "cross-chain", "interoperability", "bridge", "messaging",
       "multi-chain", "transaction-optimization", "x-chain", "omnichain">>],
     [name |-> "Education & Community Resources",
      keywords |-> <<
       "ethernaut", "revoke.cash", "openrpc", "miniapp", "starter",
       "education", "learning", "community", "resource", "guide",
       "standard", "tutorial", "docs", "documentation", "academy",
       "wargame", "ctf", "course", "bootcamp", "eip", "erc", "proposal",
       "job", "career", "hiring", "market">>] >>

UNCATEGORIZED == "Uncategorized"

\* String.prototype.includes
Includes(s, sub) ==
  \E n \in 0..(Len(s) - Len(sub)) : SubSeq(s, n + 1, n + Len(sub)) = sub

tagScore(proj, lowerKeyword) ==
  IF \E t \in 1..Len(proj.tags) : toLowerCase(proj.tags[t]) = lowerKeyword
  THEN 5 ELSE 0

nameScore(proj, lowerKeyword) ==
  IF Includes(toLowerCase(proj.name), lowerKeyword) THEN 3 ELSE 0

\* A null description gives nothing; it is the empty string here.
descriptionScore(proj, lowerKeyword) ==
  IF Includes(toLowerCase(proj.description), lowerKeyword) THEN 1 ELSE 0

\* The body of the loop over the keywords.
keywordScore(proj, lowerKeyword) ==
  tagScore(proj, lowerKeyword) + nameScore(proj, lowerKeyword)
    + descriptionScore(proj, lowerKeyword)

RECURSIVE scoreFrom(_, _, _, _)
scoreFrom(proj, keywords, n, score) ==
  IF n > Len(keywords) THEN score
  ELSE Call(LAMBDA added : scoreFrom(proj, keywords, n + 1, added),
            score + Call(LAMBDA lowerKeyword : keywordScore(proj, lowerKeyword),
                         toLowerCase(keywords[n])))

scoreProject(proj, category) == scoreFrom(proj, category.keywords, 1, 0)

\* Plays the part of better in a variant of the script that lets a later
\* category with the same score win.
betterOrEqual(score, maxScore) == score >= maxScore

\* if (score > maxScore)
better(score, maxScore) == score > maxScore

\* The body of the loop over CATEGORIES; bestCategory is the empty string
\* for null.
consider(best, category, score) ==
  IF better(score, best.maxScore)
  THEN [bestCategory |-> category.name, maxScore |-> score]
  ELSE best

RECURSIVE suggestFrom(_, _, _)
suggestFrom(proj, n, best) ==
  IF n > Len(CATEGORIES) THEN best
  ELSE Call(LAMBDA next : suggestFrom(proj, n + 1, next),
            Call(LAMBDA score : consider(best, CATEGORIES[n], score),
                 scoreProject(proj, CATEGORIES[n])))

bestName(best) ==
  IF best.bestCategory = "" THEN UNCATEGORIZED ELSE best.bestCategory

suggestCategory(proj) ==
  bestName(suggestFrom(proj, 1, [bestCategory |-> "", maxScore |-> 0]))

ProjectNames ==
  {"Foundry", "Slither Bridge", "My Wallet SDK", "Ethers.js docs", "Zebra"}

ProjectDescriptions ==
  {"", "A fuzz testing tool", "Cross-chain bridge and wallet",
   "Learning resource"}

ProjectTags ==
  {<<>>, <<"Solidity">>, <<"bridge", "wallet">>, <<"security", "sdk">>,
   <<"testing", "CLI", "audit">>, <<"unknown">>}

InitCategorize ==
  /\ CollapseIdle /\ RepoIdle /\ FundingIdle /\ ParseIdle /\ MainIdle
  /\ FieldIdle /\ ValidateIdle /\ ProjectIdle /\ SessionIdle
  /\ pc = "categorize"
  /\ \E name \in ProjectNames, description \in ProjectDescriptions,
        tags \in ProjectTags :
       catProject = [name |-> name, description |-> description, tags |-> tags]
  /\ suggested = ""

\* category: bestCategory ? bestCategory.name : "Uncategorized"
SuggestCategory ==
  /\ pc = "categorize"
  /\ suggested' = suggestCategory(catProject)
  /\ pc' = "categorized"
  /\ UNCHANGED <<collapseVars, repoVars, fundingVars, parseVars, mainVars,
                 fieldVars, validateVars, projectVars, sessionVars, catProject>>

NextCategorize == SuggestCategory

SpecCategorize == InitCategorize /\ [][NextCategorize]_vars

(***************************************************************************)
(* Vocabulary of the properties, stated on the input and not through the   *)
(* predicates of the code.                                                 *)
(***************************************************************************)
Positions == 1..Len(records)

\* Only spaces, or nothing at all.
Blank(s) == \A i \in 1..Len(s) : SubSeq(s, i, i) = " "

LacksIdentity(r) == r.k # "obj" \/ \A i \in 1..Len(r.v) : r.v[i].key # idField

LacksFreshness(r) ==
  \/ \A i \in 1..Len(r.v) : r.v[i].key # metadataField
  \/ \E i \in 1..Len(r.v) :
       /\ r.v[i].key = metadataField
       /\ \/ r.v[i].val = JNull
          \/ r.v[i].val.k = "str" /\ Blank(r.v[i].val.v)

\* The record at position i has an identity and a non-empty freshness value.
Usable(i) == ~LacksIdentity(records[i]) /\ ~LacksFreshness(records[i])

IdentityOf(i) == Get(records[i], idField)
FreshnessOf(i) == Get(records[i], metadataField)

Groups == 1..Len(byId.v)

\* The usable positions whose identity key is that of group g.
PositionsOf(g) ==
  {i \in Positions : Usable(i) /\ buildIdKey(IdentityOf(i)) = byId.v[g].key}

\* The positions of the records that group g holds.
Kept(g) == Range(members[g])

(***************************************************************************)
(* C1.  After collapseRecords has consumed the input, the freshness of the *)
(* group kept for an identity is the maximum for that identity: no usable  *)
(* input record of the identity compares strictly newer than it, and no    *)
(* record that compares strictly older is in the group.                    *)
(***************************************************************************)
C1_KeptFreshnessIsMaximum ==
  pc = "done" =>
    \A g \in Groups : \A i \in PositionsOf(g) :
      LET c == compareMetadata(FreshnessOf(i), byId.v[g].val.metadata)
      IN c <= 0 /\ (c < 0 => i \notin Kept(g))

(***************************************************************************)
(* Structural equality of JSON values, independent of the order of keys.   *)
(***************************************************************************)
RECURSIVE SameValue(_, _)
SameValue(a, b) ==
  IF a.k # b.k THEN FALSE
  ELSE IF a.k = "list"
  THEN Len(a.v) = Len(b.v) /\ \A i \in 1..Len(a.v) : SameValue(a.v[i], b.v[i])
  ELSE IF a.k = "obj"
  THEN /\ Len(a.v) = Len(b.v)
       /\ \A i \in 1..Len(a.v) : \E j \in 1..Len(b.v) :
            a.v[i].key = b.v[j].key /\ SameValue(a.v[i].val, b.v[j].val)
  ELSE a = b

\* Null, or a string of nothing but spaces.
Empty(x) == x = JNull \/ (x.k = "str" /\ Blank(x.v))

\* The values a field value stands for: the elements of a list, else itself.
Elements(x) == IF x.k = "list" THEN x.v ELSE <<x>>

\* A field that goes to the merged record under its own name.
PlainField(key) ==
  ~StartsWith(key, "_dlt") /\ ~StartsWith(key, "repo_") /\ key # "repositories"

\* The merged value m holds the value x, alone or as one of a list.
Holds(m, x) ==
  SameValue(m, x) \/ (m.k = "list" /\ \E j \in 1..Len(m.v) : SameValue(m.v[j], x))

\* Record r contributes its fields to the merged record out: every plain
\* field of r is a field of out, with every non-empty value of r that is not
\* itself a list.
Contributes(r, out) ==
  \A e \in Range(r.v) :
    PlainField(e.key) =>
      /\ \E o \in Range(out.v) : o.key = e.key
      /\ \A x \in Range(Elements(e.val)) :
           (~Empty(x) /\ x.k # "list") => Holds(Get(out, e.key), x)

UniqueIdentities(out) ==
  \A p, q \in 1..Len(out) :
    p # q => buildIdKey(Get(out[p], idField)) # buildIdKey(Get(out[q], idField))

C3_Idempotent ==
  (pc = "recollapsed" /\ UniqueIdentities(collapsed)) => recollapsed = collapsed

\* A list as the field merge emits it: empty, or two or more non-empty values
\* that differ pairwise.
MergedList(items) ==
  \/ Len(items) = 0
  \/ /\ Len(items) >= 2
     /\ \A i \in 1..Len(items) : ~Empty(items[i])
     /\ \A i, j \in 1..Len(items) : i # j => ~SameValue(items[i], items[j])

\* A repositories list as the repository merge emits it when it merges
\* anything: not empty, and no two objects under one repository key.
MergedRepositories(value) ==
  /\ value.k = "list"
  /\ Len(value.v) > 0
  /\ \A i, j \in 1..Len(value.v) :
       i # j => buildRepositoryKey(value.v[i]) # buildRepositoryKey(value.v[j])

Settled(out) ==
  \A p \in 1..Len(out) : \A e \in Range(out[p].v) :
    IF e.key = "repositories" THEN MergedRepositories(e.val)
    ELSE e.val.k = "list" => MergedList(e.val.v)

(***************************************************************************)
(* C3, amended.  Collapsing an already-collapsed output returns that       *)
(* output when every identity appears once in it, every list-valued field  *)
(* of it is empty or holds two or more distinct non-empty values, and      *)
(* every repositories list of it is non-empty with one object per          *)
(* repository key.                                                         *)
(***************************************************************************)
C3_IdempotentWhenSettled ==
  (pc = "recollapsed" /\ UniqueIdentities(collapsed) /\ Settled(collapsed)) =>
    recollapsed = collapsed

\* A second run over an output that holds a merged list, a repositories list
\* and fewer records than the input.
C3_Witness ==
  /\ pc = "recollapsed"
  /\ UniqueIdentities(collapsed)
  /\ Settled(collapsed)
  /\ Len(collapsed) = 2
  /\ Len(records) > Len(collapsed)
  /\ \E p \in 1..Len(collapsed) : \E e \in Range(collapsed[p].v) :
       e.key # "repositories" /\ e.val.k = "list" /\ Len(e.val.v) >= 2
  /\ \E p \in 1..Len(collapsed) : \E e \in Range(collapsed[p].v) :
       e.key = "repositories"

(***************************************************************************)
(* C4.  When the records of a kept group carry several distinct non-empty  *)
(* values for a field, the merged record holds the list of them in         *)
(* first-seen order; when one distinct value survives, the merged record   *)
(* holds that value itself.  The values a record carries for a field are   *)
(* the elements of a list-valued field (one level), else the field value.  *)
(***************************************************************************)
\* The values of items without repetition, first occurrences kept.
RECURSIVE Distinct(_)
Distinct(items) ==
  IF Len(items) = 0 THEN <<>>
  ELSE LET front == Distinct(SubSeq(items, 1, Len(items) - 1))
           last == items[Len(items)]
       IN IF \E j \in 1..Len(front) : SameValue(front[j], last) THEN front
          ELSE Append(front, last)

\* The non-empty values that the records at the given positions carry for key.
RECURSIVE Carried(_, _)
Carried(positions, key) ==
  IF Len(positions) = 0 THEN <<>>
  ELSE LET r == records[positions[1]]
           here == IF \E e \in Range(r.v) : e.key = key
                   THEN SelectSeq(Elements(Get(r, key)), LAMBDA x : ~Empty(x))
                   ELSE <<>>
       IN here \o Carried(Tail(positions), key)

C4_DistinctValuesInFirstSeenOrder ==
  pc = "done" =>
    \A g \in Groups : \A i \in Kept(g) : \A e \in Range(records[i].v) :
      PlainField(e.key) =>
        LET values == Distinct(Carried(members[g], e.key))
        IN /\ Len(values) >= 2 => Get(collapsed[g], e.key) = JList(values)
           /\ Len(values) = 1 => Get(collapsed[g], e.key) = values[1]

(***************************************************************************)
(* C5.  A record that is no JSON object or lacks the identity field is in  *)
(* no group and is counted in missingId; a record with the identity field  *)
(* whose freshness field is absent, null or blank is in no group and is    *)
(* counted in missingMetadata; each such record is counted once, and the   *)
(* records after it are still processed.                                   *)
(***************************************************************************)
C5_DefectiveRecordsCounted ==
  /\ missingId = Cardinality({i \in Positions : LacksIdentity(records[i])})
  /\ missingMetadata =
       Cardinality({i \in Positions :
                      ~LacksIdentity(records[i]) /\ LacksFreshness(records[i])})
  /\ \A g \in Groups : \A i \in Kept(g) : Usable(i)
  /\ \A i \in Positions : Usable(i) => \E g \in Groups : i \in PositionsOf(g)
  /\ pc = "done" =>
       /\ summary.missingId = missingId
       /\ summary.missingMetadata = missingMetadata

\* Records of both kinds were skipped and a later record still formed a group.
C5_Witness ==
  /\ pc = "done"
  /\ summary.missingId > 0
  /\ summary.missingMetadata > 0
  /\ \E i, j \in Positions :
       /\ i < j
       /\ ~Usable(i)
       /\ \E g \in Groups : j \in Kept(g)
  /\ \E i \in Positions :
       /\ ~LacksIdentity(records[i])
       /\ Get(records[i], metadataField) = JStr("  ")

(***************************************************************************)
(* C6.  When the freshness values of two records of one identity both      *)
(* parse as timestamps, the larger timestamp wins, and records of equal    *)
(* timestamps are merged into one group: neither replaces the other.       *)
(***************************************************************************)
C6_TimestampsComparedNumerically ==
  pc = "done" =>
    \A g \in Groups : \A i, j \in PositionsOf(g) :
      LET ti == toTimestamp(FreshnessOf(i))
          tj == toTimestamp(FreshnessOf(j))
      IN (ti.ok /\ tj.ok) =>
           /\ TimestampGreater(ti, tj) => j \notin Kept(g)
           /\ ti = tj => (i \in Kept(g) <=> j \in Kept(g))

(***************************************************************************)
(* C7.  The output holds one merged record for each distinct identity      *)
(* value among the usable input records, uniqueIds is the number of those  *)
(* values, and records whose identity values differ are never merged.      *)
(***************************************************************************)
C7_OneRecordPerIdentityValue ==
  pc = "done" =>
    LET identities == {IdentityOf(i) : i \in {p \in Positions : Usable(p)}}
    IN /\ Len(collapsed) = Cardinality(identities)
       /\ summary.uniqueIds = Cardinality(identities)
       /\ \A g \in Groups : \A i, j \in Kept(g) : IdentityOf(i) = IdentityOf(j)

(***************************************************************************)
(* C8.  olderRecordsSkipped is the number of usable input records that are *)
(* not in the final group of their identity; a record that is older than   *)
(* a later kept record of its identity is not kept; and the merged record  *)
(* is built from the kept records alone.                                   *)
(***************************************************************************)
KeptRecords(g) == [n \in 1..Len(members[g]) |-> records[members[g][n]]]

C8_OlderRecordsSkipped ==
  pc = "done" =>
    /\ summary.olderRecordsSkipped =
         Cardinality({i \in Positions :
                        Usable(i) /\ \A g \in Groups : i \notin Kept(g)})
    /\ \A g \in Groups : \A i \in PositionsOf(g) : \A j \in Kept(g) :
         (i < j /\ compareMetadata(FreshnessOf(j), FreshnessOf(i)) > 0) =>
           i \notin Kept(g)
    /\ \A g \in Groups :
         /\ byId.v[g].val.records = KeptRecords(g)
         /\ collapsed[g] = mergeGroupRecords(KeptRecords(g))
         /\ \A e \in Range(collapsed[g].v) :
              e.key # "repositories" =>
                \E i \in Kept(g) : \E f \in Range(records[i].v) : f.key = e.key

\* A group of two records was replaced by a strictly newer record.
C8_Witness ==
  /\ pc = "done"
  /\ summary.olderRecordsSkipped = 2
  /\ \E g \in Groups :
       /\ Kept(g) = {3}
       /\ PositionsOf(g) = {1, 2, 3}
       /\ compareMetadata(FreshnessOf(2), FreshnessOf(1)) = 0
       /\ compareMetadata(FreshnessOf(3), FreshnessOf(1)) > 0

(***************************************************************************)
(* C9.  The merged records come out in first-encountered order: the record *)
(* of one identity key precedes that of another exactly when the first     *)
(* usable input record of the one precedes the first usable input record   *)
(* of the other, also when a group was replaced by a newer record.         *)
(***************************************************************************)
FirstPosition(g) == CHOOSE i \in PositionsOf(g) : \A j \in PositionsOf(g) : i <= j

C9_FirstEncounteredOrder ==
  pc = "done" =>
    /\ Len(collapsed) = Len(byId.v)
    /\ \A g \in Groups :
         /\ PositionsOf(g) # {}
         /\ collapsed[g] = mergeGroupRecords(KeptRecords(g))
         /\ \A i \in Kept(g) : i \in PositionsOf(g)
    /\ \A g, h \in Groups : g < h <=> FirstPosition(g) < FirstPosition(h)

\* The first group was replaced after the second group had started, and is
\* still the first in the output.
C9_Witness ==
  /\ pc = "done"
  /\ Len(collapsed) = 2
  /\ 1 \in PositionsOf(1)
  /\ 2 \in PositionsOf(2)
  /\ Kept(1) = {3}

(***************************************************************************)
(* C10.  buildRepositoryObjects zips the repo_<attribute> fields by        *)
(* position: object i takes element i of every list-valued field as the    *)
(* list stands in the record, a single value goes to every object, and     *)
(* there are as many objects as the longest list has elements.             *)
(***************************************************************************)
ListFields == {i \in 1..Len(repoFields.v) : repoFields.v[i].val.k = "list"}

LongestList ==
  LET lengths == {Len(repoFields.v[i].val.v) : i \in ListFields}
  IN CHOOSE n \in lengths : \A m \in lengths : m <= n

C10_RepositoriesZippedByPosition ==
  (pc = "built" /\ ListFields # {}) =>
    /\ Len(repositories) = LongestList
    /\ \A i \in 1..Len(repositories) : \A f \in 1..Len(repoFields.v) :
         LET key == repoFields.v[f].key
             value == repoFields.v[f].val
         IN IF value.k # "list"
            THEN ~Empty(value) => Get(repositories[i], key) = value
            ELSE IF i <= Len(value.v)
            THEN Get(repositories[i], key) =
                   (IF Empty(value.v[i]) THEN Undefined ELSE value.v[i])
            ELSE Len(value.v) > 1 => Get(repositories[i], key) = Undefined

(***************************************************************************)
(* C11.  In every merged record the repository objects that the records of *)
(* the group contribute are deduplicated by a key taken from url, else id, *)
(* else type, else the structure of the whole object: one output object    *)
(* for each distinct key, in the order in which the keys are first seen,   *)
(* and the objects that share a key have their fields combined by the      *)
(* field-merge policy: a field holds the distinct non-empty values that    *)
(* the objects of the key carry for it, in first-seen order.               *)
(***************************************************************************)
\* The repository objects contributed by the records at the given positions,
\* in order, without the objects that have no field.
RECURSIVE Contributed(_)
Contributed(positions) ==
  IF Len(positions) = 0 THEN <<>>
  ELSE SelectSeq(extractRepositoryEntries(records[positions[1]]).repoEntries,
                 LAMBDA o : Len(o.v) > 0)
         \o Contributed(Tail(positions))

\* The attribute a string value of which makes the key of object o.
UsableText(o, key) ==
  \E e \in Range(o.v) : e.key = key /\ e.val.k = "str" /\ ~Blank(e.val.v)

KeyAttribute(o) ==
  IF UsableText(o, "url") THEN "url"
  ELSE IF UsableText(o, "id") THEN "id"
  ELSE IF UsableText(o, "type") THEN "type"
  ELSE "none"

\* Objects a and b have the same key.
SameRepository(a, b) ==
  /\ KeyAttribute(a) = KeyAttribute(b)
  /\ IF KeyAttribute(a) = "none" THEN SameValue(a, b)
     ELSE Trim(Get(a, KeyAttribute(a)).v) = Trim(Get(b, KeyAttribute(b)).v)

\* The places in objs at which a key is seen for the first time, in order.
FirstSeen(objs) ==
  SelectSeq([i \in 1..Len(objs) |-> i],
            LAMBDA i : \A j \in 1..(i - 1) : ~SameRepository(objs[j], objs[i]))

\* The places in objs of the objects that have the key of objs[i].
ClassOf(objs, i) ==
  SelectSeq([j \in 1..Len(objs) |-> j], LAMBDA j : SameRepository(objs[j], objs[i]))

\* The non-empty values that the objects at the given places carry for key.
RECURSIVE CarriedByObjects(_, _, _)
CarriedByObjects(objs, places, key) ==
  IF Len(places) = 0 THEN <<>>
  ELSE LET o == objs[places[1]]
           here == IF \E e \in Range(o.v) : e.key = key
                   THEN SelectSeq(Elements(Get(o, key)), LAMBDA x : ~Empty(x))
                   ELSE <<>>
       IN here \o CarriedByObjects(objs, Tail(places), key)

\* The output object out combines the objects of objs at the given places.
Combines(out, objs, places) ==
  /\ \A f \in Range(out.v) :
       \E j \in Range(places) : \E e \in Range(objs[j].v) : e.key = f.key
  /\ \A j \in Range(places) : \A e \in Range(objs[j].v) :
       /\ \E f \in Range(out.v) : f.key = e.key
       /\ LET values == Distinct(CarriedByObjects(objs, places, e.key))
          IN Len(values) > 0 => Elements(Get(out, e.key)) = values

C11_RepositoriesDeduplicatedByKey ==
  pc = "done" =>
    \A g \in Groups :
      LET objs == Contributed(members[g])
          firsts == FirstSeen(objs)
          out == Get(collapsed[g], "repositories")
      IN Len(objs) > 0 =>
           /\ out.k = "list"
           /\ Len(out.v) = Len(firsts)
           /\ \A p \in 1..Len(firsts) :
                LET places == ClassOf(objs, firsts[p])
                IN IF Len(places) = 1 THEN out.v[p] = objs[firsts[p]]
                   ELSE Combines(out.v[p], objs, places)

(***************************************************************************)
(* C19, as stated.  For the two records of the end-to-end scenario the     *)
(* output is the one record {id, name, repositories}, and the summary has  *)
(* totalRecords 2, uniqueIds 1, usedRecords 1, mergedRecords 0 and         *)
(* olderRecordsSkipped 1.                                                  *)
(***************************************************************************)
ScenarioSummary ==
  /\ summary.totalRecords = 2
  /\ summary.uniqueIds = 1
  /\ summary.usedRecords = 1
  /\ summary.mergedRecords = 0
  /\ summary.olderRecordsSkipped = 1

C19_ScenarioOutput ==
  (pc = "done" /\ records = ScenarioRecords) =>
    /\ collapsed =
         << JObj(<<Entry("id", JStr("p1")),
                   Entry("name", JStr("Foo")),
                   Entry("repositories",
                         JList(<<Repo(<<Entry("url", JStr("https://x"))>>)>>))>>) >>
    /\ ScenarioSummary

(***************************************************************************)
(* C19, amended.  For the two records of the scenario the output is the    *)
(* one record {id, last_metadata_update: "2024-06-01", name, repositories},*)
(* with its fields in this order, and the summary is as stated.            *)
(***************************************************************************)
C19_ScenarioOutputWithFreshness ==
  (pc = "done" /\ records = ScenarioRecords) =>
    /\ collapsed =
         << JObj(<<Entry("id", JStr("p1")),
                   Entry("last_metadata_update", JStr("2024-06-01")),
                   Entry("name", JStr("Foo")),
                   Entry("repositories",
                         JList(<<Repo(<<Entry("url", JStr("https://x"))>>)>>))>>) >>
    /\ ScenarioSummary

\* The scenario has run to its end.
C19_Witness ==
  /\ pc = "done"
  /\ records = ScenarioRecords
  /\ Len(collapsed) = 1
  /\ summary.olderRecordsSkipped = 1

(***************************************************************************)
(* Vocabulary of the funding properties.                                   *)
(***************************************************************************)
\* The entries the merged record held before the attachment.
ExistingEntries ==
  LET existing == Get(fundingTarget, selfReportedFunding)
  IN IF existing.k = "list" THEN existing.v
     ELSE IF existing.k = "undefined" THEN <<>>
     ELSE <<existing>>

\* The entries the index holds for the merged record.
IncomingEntries ==
  LET key == buildIdKey(Get(fundingTarget, idField))
  IN IF HasKey(fundingById, key) THEN Get(fundingById, key) ELSE <<>>

Candidates == ExistingEntries \o IncomingEntries

\* The attachment ran to its end and wrote the target field.
Attached ==
  /\ pc = "attached"
  /\ attached.k # "thrown"
  /\ Len(IncomingEntries) > 0

EmittedEntries == Get(attached, selfReportedFunding).v

HasRound(entry) ==
  LET round == Get(entry, "round_id")
  IN \/ round.k = "num"
     \/ round.k = "str" /\ ~Blank(round.v)

\* Two entries of one round: round identifiers of the same kind that are
\* equal, blanks around a text aside.
SameRound(a, b) ==
  LET ra == Get(a, "round_id")
      rb == Get(b, "round_id")
  IN /\ HasRound(a) /\ HasRound(b)
     /\ ra.k = rb.k
     /\ IF ra.k = "str" THEN Trim(ra.v) = Trim(rb.v) ELSE ra.v = rb.v

UpdatedAt(entry) == toTimestamp(Get(entry, "updated_at"))

\* C12: after funding attachment the entries under the target field hold at
\* most one entry per round identifier, and the entry of a round is not
\* older than any existing or incoming entry of that round whose updated_at
\* is a timestamp, in whatever order the entries were met.
C12_OneLatestEntryPerRound ==
  Attached =>
    /\ \A i, j \in 1..Len(EmittedEntries) :
         i < j => ~SameRound(EmittedEntries[i], EmittedEntries[j])
    /\ \A i \in 1..Len(EmittedEntries) :
         \A c \in 1..Len(Candidates) :
           ( /\ SameRound(EmittedEntries[i], Candidates[c])
             /\ UpdatedAt(EmittedEntries[i]).ok
             /\ UpdatedAt(Candidates[c]).ok )
           => ~TimestampGreater(UpdatedAt(Candidates[c]),
                                UpdatedAt(EmittedEntries[i]))

\* Two existing or incoming entries of one round whose updated_at values are
\* not both timestamps, or are the same timestamp.
Unordered(a, b) ==
  \/ ~UpdatedAt(a).ok
  \/ ~UpdatedAt(b).ok
  \/ UpdatedAt(a) = UpdatedAt(b)

SomeRoundUnordered ==
  \E i, j \in 1..Len(Candidates) :
    i < j /\ SameRound(Candidates[i], Candidates[j])
          /\ Unordered(Candidates[i], Candidates[j])

WithoutBookkeeping(entry) ==
  JObj(SelectSeq(entry.v, LAMBDA e : e.key \notin {"id", "project_id"}))

\* C13: when two funding entries of one round have updated_at values that
\* are absent or equal, the attachment does not fail and every emitted entry
\* is one of the existing or incoming entries.
C13_FallbackNeverFails ==
  (pc = "attached" /\ Len(IncomingEntries) > 0 /\ SomeRoundUnordered) =>
    /\ attached.k # "thrown"
    /\ \A i \in 1..Len(EmittedEntries) :
         \E c \in 1..Len(Candidates) :
           EmittedEntries[i] = WithoutBookkeeping(Candidates[c])

\* A text that writes the number zero: zeros with at most one point, commas
\* and blanks aside.
ZeroText(s) ==
  LET cs == SelectSeq(Chars(s), LAMBDA c : c \notin {",", " "})
  IN /\ \E i \in 1..Len(cs) : cs[i] = "0"
     /\ \A i \in 1..Len(cs) : cs[i] \in {"0", "."}
     /\ Cardinality({i \in 1..Len(cs) : cs[i] = "."}) <= 1

\* The amount of the record is absent, null, empty or zero.
LacksAmount(r) ==
  LET amount == Get(r, "amount")
  IN \/ amount.k \in {"undefined", "null"}
     \/ amount.k = "num" /\ amount.v = 0
     \/ amount.k = "str" /\ (Blank(amount.v) \/ ZeroText(amount.v))

\* The record has no meaningful project identity.
LacksProject(r) ==
  LET identity == Get(r, "project_id")
  IN \/ identity.k \in {"undefined", "null"}
     \/ identity.k = "str" /\ Blank(identity.v)

Dropped(r) == r.k # "obj" \/ LacksAmount(r) \/ LacksProject(r)

RECURSIVE IndexedCount(_)
IndexedCount(buckets) ==
  IF Len(buckets) = 0 THEN 0
  ELSE Len(Head(buckets).val) + IndexedCount(Tail(buckets))

\* C14: the index holds exactly the auxiliary records that have an amount
\* other than absent, null, empty or zero and a meaningful project identity;
\* no entry the index contributes to a merged record lacks an amount.
C14_IndexDropsZeroAndMissingAmounts ==
  /\ pc \in {"index", "attached"} =>
       /\ \A b \in 1..Len(fundingById.v) :
            \A e \in 1..Len(fundingById.v[b].val) :
              ~Dropped(fundingById.v[b].val[e])
       /\ IndexedCount(fundingById.v)
            = Cardinality({i \in 1..Len(fundingRecords) :
                             ~Dropped(fundingRecords[i])})
  /\ Attached =>
       \A i \in 1..Len(EmittedEntries) :
         (\E c \in 1..Len(IncomingEntries) :
            EmittedEntries[i] = WithoutBookkeeping(IncomingEntries[c]))
         => ~LacksAmount(EmittedEntries[i])

C14_Witness ==
  /\ Attached
  /\ Len(EmittedEntries) > 0
  /\ \E i \in 1..Len(fundingRecords) :
       /\ fundingRecords[i].k = "obj"
       /\ Get(fundingRecords[i], "amount") = JStr("0,000")
  /\ \E i \in 1..Len(fundingRecords) :
       /\ fundingRecords[i].k = "obj"
       /\ LacksProject(fundingRecords[i])

\* C15: no funding entry emitted under the target field holds the keys id
\* or project_id, and the emitted entries of a record are pairwise
\* distinct.
C15_EmittedEntriesStrippedAndDistinct ==
  Attached =>
    /\ \A i \in 1..Len(EmittedEntries) :
         ~HasKey(EmittedEntries[i], "id")
         /\ ~HasKey(EmittedEntries[i], "project_id")
    /\ \A i, j \in 1..Len(EmittedEntries) :
         i < j => EmittedEntries[i] # EmittedEntries[j]

\* The first half of C15 on its own.
EmittedEntriesStripped ==
  Attached =>
    \A i \in 1..Len(EmittedEntries) :
      ~HasKey(EmittedEntries[i], "id")
      /\ ~HasKey(EmittedEntries[i], "project_id")

(***************************************************************************)
(* Vocabulary of the parsing properties.                                   *)
(***************************************************************************)
\* One or more non-empty lines, each holding one JSON object.
IsNdjson(raw) ==
  Len(raw) >= 1 /\ \A i \in 1..Len(raw) : raw[i].kind = "object"

\* A JSON array written on lines of its own, blank lines aside: brackets
\* around elements that are separated by commas; an element is an object, a
\* scalar or such an array.
RECURSIVE IsArray(_)
IsArray(lines) ==
  /\ Len(lines) >= 2
  /\ lines[1].kind = "open"
  /\ lines[Len(lines)].kind = "close"
  /\ LET body == SubSeq(lines, 2, Len(lines) - 1)
     IN \/ Len(body) = 0
        \/ \E n \in 0..(Len(body) - 1) :
             /\ \A i \in 1..n : body[i].kind = "objectComma"
             /\ LET rest == SubSeq(body, n + 1, Len(body))
                IN \/ Len(rest) = 1 /\ rest[1].kind \in {"object", "scalar"}
                   \/ IsArray(rest)

\* The elements of a JSON array whose elements are objects and scalars.
FlatElements(lines) ==
  [i \in 1..(Len(lines) - 2) |-> lines[i + 1].value]

IsFlatArray(lines) ==
  /\ IsArray(lines)
  /\ \A i \in 2..(Len(lines) - 1) : lines[i].kind \notin {"open", "close"}

\* C18: parseRecords accepts every text of one or more non-empty lines that
\* each hold one JSON object and returns the objects in line order, accepts
\* every JSON array, and rejects every other text that is not empty.
C18_ParseAcceptsNdjsonAndArrays ==
  pc = "parsed" =>
    LET solid == SelectSeq(rawText, LAMBDA l : l.kind # "blank")
    IN /\ IsNdjson(rawText) =>
            /\ parsedRecords.ok
            /\ parsedRecords.records
                 = [i \in 1..Len(rawText) |-> rawText[i].value]
       /\ IsArray(solid) => parsedRecords.ok
       /\ IsFlatArray(solid) =>
            parsedRecords.records = FlatElements(solid)
       /\ (Len(solid) > 0 /\ ~IsNdjson(solid) /\ ~IsArray(solid)) =>
            ~parsedRecords.ok

\* C18 for the texts of two or more lines.
ParseAcceptsLongerNdjson ==
  (pc = "parsed" /\ Len(SelectSeq(rawText, NotBlank)) # 1) =>
    C18_ParseAcceptsNdjsonAndArrays

(***************************************************************************)
(* Vocabulary of the mergeField properties.                                *)
(***************************************************************************)
\* Every value mergeField has seen, existing and incoming, is empty.
AllSeenEmpty ==
  /\ fieldExisting.k # "undefined" =>
       \A i \in 1..Len(Elements(fieldExisting)) :
         Empty(Elements(fieldExisting)[i])
  /\ \A i \in 1..Len(Elements(fieldIncoming)) :
       Empty(Elements(fieldIncoming)[i])

\* C20: null and blank texts never appear in the value mergeField returns;
\* when every value seen is empty the result is the existing value, and the
\* empty list when there is none (none being absent or null).
C20_EmptyValuesNeverMerged ==
  pc = "merged" =>
    /\ \A i \in 1..Len(Elements(fieldMerged)) :
         ~Empty(Elements(fieldMerged)[i])
    /\ AllSeenEmpty =>
         fieldMerged = IF fieldExisting.k \in {"undefined", "null"}
                       THEN JList(<<>>)
                       ELSE fieldExisting

\* C20 when the existing value is absent or holds no empty value, as every
\* value mergeField returns to mergeGroupRecords does.
EmptyValuesNeverMergedIntoMerged ==
  (pc = "merged"
     /\ \A i \in 1..Len(Elements(fieldExisting)) :
          ~Empty(Elements(fieldExisting)[i]))
  => C20_EmptyValuesNeverMerged

(***************************************************************************)
(* Vocabulary of the properties of main.                                   *)
(***************************************************************************)
\* The dataset was not asked for, or its index has been loaded.
LoadedIfRequested(requested, dataset) == requested => dataset.k = "obj"

\* C16: the output file is written only after the input was read and parsed
\* and every requested auxiliary dataset was loaded; a run whose input cannot
\* be read or parsed, or whose auxiliary dataset cannot be loaded, ends with
\* nothing written.
C16_OutputOnlyAfterAllInputsLoaded ==
  /\ outputWritten # "none" =>
       /\ argv.inputPath
       /\ parsedRecords.ok
       /\ parsedRecords = parseRecords(rawText)
       /\ LoadedIfRequested(argv.selfFundingPath,
                            attachments.selfReportedFunding)
       /\ LoadedIfRequested(argv.opRewardsPath, attachments.opRewards)
       /\ failedAt \in {"none", "write"}
  /\ failedAt \in {"usage", "read", "parse", "load"} =>
       pc = "exited" /\ outputWritten = "none"

C16_Witness ==
  /\ pc = "done"
  /\ outputWritten = "complete"
  /\ argv.selfFundingPath /\ argv.opRewardsPath
  /\ Len(collapsed) = 1
  /\ HasKey(collapsed[1], "opRewards")

\* C17: the run ends with a non-zero exit status exactly when it failed
\* (usage, read, parse, load, write, or an exception), and with exit status
\* zero exactly when the output file was written and the summary printed.
C17_ExitStatusTellsFailure ==
  pc \in {"done", "exited"} =>
    /\ exitCode # 0 <=> failedAt # "none"
    /\ exitCode = 0 <=> (outputWritten = "complete" /\ summaryLogged)

C17_Witness ==
  /\ pc = "exited"
  /\ failedAt = "exception"
  /\ exitCode = 1
  /\ outputWritten = "none"

\* The text read is an empty file or an empty JSON array.
EmptyInput ==
  \/ SelectSeq(rawText, NotBlank) = <<>>
  \/ rawText = <<Line("open", JNull), Line("close", JNull)>>

\* C21: an empty file or an empty JSON array gives an empty output array and
\* a summary whose seven counters are all zero.
C21_EmptyInputEmptyOutput ==
  (pc \in {"loadSelf", "loadRewards", "attach", "write", "done"}
     /\ EmptyInput) =>
    /\ parsedRecords.ok
    /\ parsedRecords.records = <<>>
    /\ collapsed = <<>>
    /\ summary = [totalRecords |-> 0, uniqueIds |-> 0, usedRecords |-> 0,
                  mergedRecords |-> 0, missingId |-> 0,
                  missingMetadata |-> 0, olderRecordsSkipped |-> 0]

C21_Witness ==
  /\ pc = "done"
  /\ rawText = <<Line("open", JNull), Line("close", JNull)>>
  /\ outputWritten = "complete"
  /\ collapsed = <<>>

\* C23: in every summary of collapseRecords the counters partition the
\* input: totalRecords = usedRecords + missingId + missingMetadata +
\* olderRecordsSkipped, and mergedRecords = usedRecords - uniqueIds >= 0.
C23_CountersPartitionInput ==
  pc = "done" =>
    /\ summary.totalRecords = Len(records)
    /\ summary.totalRecords
         = summary.usedRecords + summary.missingId + summary.missingMetadata
           + summary.olderRecordsSkipped
    /\ summary.mergedRecords = summary.usedRecords - summary.uniqueIds
    /\ summary.mergedRecords >= 0

C23_Witness ==
  /\ pc = "done"
  /\ summary.totalRecords = 3
  /\ summary.olderRecordsSkipped > 0
  /\ summary.usedRecords > 1

\* The winning group of every identity key: the records collapseRecords
\* holds for it at the end of its loop.
WinningGroups(recs) ==
  LET groups == collapseLoop(LoopStart, recs).byId.v
  IN { <<groups[i].key, Range(groups[i].val.records)>> :
         i \in 1..Len(groups) }

\* C24: the records that contribute to the merged record of an identity do
\* not depend on the order of the input: every permutation of the records
\* gives the same winning group per identity.
C24_WinningGroupIndependentOfOrder ==
  pc = "done" =>
    \A p \in Permutations(1..Len(records)) :
      WinningGroups([i \in 1..Len(records) |-> records[p[i]]])
        = WinningGroups(records)

\* The target fields whose loaded index holds entries for the record.
MatchedFields(record) ==
  { field \in {selfReportedFunding, "opRewards"} :
      /\ attachments[field].k = "obj"
      /\ HasKey(record, idField)
      /\ HasKey(attachments[field], buildIdKey(Get(record, idField)))
      /\ Len(Get(attachments[field], buildIdKey(Get(record, idField)))) > 0 }

\* The record after differs from the record before in its matched target
\* fields only: every other field keeps its value and its place, and no
\* field is added but a matched target field.
OnlyTargetFieldsSet(before, after) ==
  /\ \A i \in 1..Len(before.v) :
       /\ after.v[i].key = before.v[i].key
       /\ before.v[i].key \notin MatchedFields(before) =>
            after.v[i] = before.v[i]
  /\ \A i \in 1..Len(after.v) :
       i > Len(before.v) => after.v[i].key \in MatchedFields(before)
  /\ \A field \in MatchedFields(before) : HasKey(after, field)
  /\ MatchedFields(before) = {} => after = before

\* C25: the attachment changes a merged record only by setting a target
\* field, and only when the index holds entries for the identity key of the
\* record; records without a match, every other field, and the number and
\* order of the records stay as they are.
C25_AttachmentSetsOnlyTargetField ==
  [][(pc = "attach" /\ pc' = "write") =>
       /\ Len(collapsed') = Len(collapsed)
       /\ \A i \in 1..Len(collapsed) :
            OnlyTargetFieldsSet(collapsed[i], collapsed'[i])]_vars

C25_Witness ==
  /\ pc = "write"
  /\ Len(collapsed) = 2
  /\ HasKey(collapsed[1], selfReportedFunding)
  /\ ~HasKey(collapsed[2], selfReportedFunding)
  /\ Get(collapsed[2], "opRewards") = JStr("none")
  /\ attachments.opRewards.k = "obj"

(***************************************************************************)
(* Vocabulary of the claim about validate-results.                         *)
(***************************************************************************)
TaxonomyTags == {taxonomy.tags.v[i].v : i \in 1..Len(taxonomy.tags.v)}

TaxonomyTagsTrimmed == {Trim(t) : t \in TaxonomyTags}

CategoryNames ==
  IF taxonomy.definitions.k = "list"
  THEN {Get(taxonomy.definitions.v[i], "name").v :
          i \in 1..Len(taxonomy.definitions.v)}
  ELSE {}

NonEmptyText(x) == x.k = "str" /\ Trim(x.v) # ""

HttpUrl(x) ==
  /\ x.k = "str"
  /\ \E rest \in {"x", "y"} :
       Trim(x.v) \in {"http://" \o rest, "https://" \o rest}

UniqueId(i) ==
  \A j \in 1..Len(resultsFile.v) :
    (j # i /\ resultsFile.v[j].k = "obj"
      /\ Get(resultsFile.v[j], "id").k = "str")
      => Get(resultsFile.v[j], "id").v # Get(resultsFile.v[i], "id").v

Conforms(i, listed) ==
  LET entry == resultsFile.v[i] IN
  /\ entry.k = "obj"
  /\ NonEmptyText(Get(entry, "id"))
  /\ UniqueId(i)
  /\ NonEmptyText(Get(entry, "name"))
  /\ NonEmptyText(Get(entry, "description"))
  /\ Get(entry, "repos").k = "list"
  /\ Get(entry, "repos").v # <<>>
  /\ \A r \in 1..Len(Get(entry, "repos").v) : HttpUrl(Get(entry, "repos").v[r])
  /\ Get(entry, "tags").k = "list"
  /\ Get(entry, "tags").v # <<>>
  /\ \A t \in 1..Len(Get(entry, "tags").v) :
       Get(entry, "tags").v[t].v \in listed
  /\ NonEmptyText(Get(entry, "category"))
  /\ Get(entry, "category").v \in CategoryNames

ValidationSound(listed) ==
  /\ report = "passed"
       => /\ exitCode = 0
          /\ resultsFile.k = "list"
          /\ \A i \in 1..Len(resultsFile.v) : Conforms(i, listed)
  /\ (pc = "exited" /\ report # "none")
       => /\ entryIndex = Len(resultsFile.v)
          /\ (\E i \in 1..Len(resultsFile.v) : ~Conforms(i, listed))
               => (exitCode # 0 /\ report = "failed")

Power2(n) == 2^n

RetriesBounded ==
  /\ requests <= MAX_RETRIES + 1
  /\ Len(waits) <= requests
  /\ \A n \in 1..Len(waits) : waits[n] = INITIAL_RETRY_DELAY * Power2(n - 1)

\* The one tag of the default path: the category, when it is an allowed tag
\* or the alias of one, and the fallback tag otherwise.
IsDefaultTags(tags) ==
  /\ Len(tags) = 1
  /\ tags[1] \in tagConfig.allowedTagSet
  /\ tags[1] # tagConfig.fallbackTag
       => /\ project.category # ""
          /\ tags = normalizeTag(project.category, tagConfig)

ReturnsDefaultOnError ==
  (pc = "returned" /\ tagPath \in {"error", "default"})
    => /\ taggedProject.id = project.id
       /\ IsDefaultTags(taggedProject.tags)

\* C26: generateTagsWithLLM sends at most MAX_RETRIES + 1 requests for one
\* project, the wait before the n-th retry is INITIAL_RETRY_DELAY doubled
\* n - 1 times, processProject returns the project with default tags when the
\* retries are exhausted or another error occurs, and it always returns.
C26_BoundedRetriesAlwaysReturn ==
  /\ [](RetriesBounded /\ ReturnsDefaultOnError)
  /\ <>(pc = "returned")

C26_Witness ==
  /\ pc = "returned"
  /\ requests = MAX_RETRIES + 1
  /\ Len(waits) = MAX_RETRIES + 1
  /\ tagPath = "error"

\* C29: every project processProject returns has between one and MAX_TAGS
\* tags, each of them in the allowed tag set, whichever path gave the tags.
C29_ReturnedTagsAllowedAndBounded ==
  pc = "returned"
    => /\ Len(taggedProject.tags) >= 1
       /\ Len(taggedProject.tags) <= MAX_TAGS
       /\ \A n \in 1..Len(taggedProject.tags) :
            taggedProject.tags[n] \in tagConfig.allowedTagSet

C29_Witness ==
  /\ pc = "returned"
  /\ tagPath = "llm"
  /\ Len(taggedProject.tags) = MAX_TAGS

(***************************************************************************)
(* Vocabulary of the claims about the loop of main over the projects.      *)
(***************************************************************************)
RequestStarts == pc = "fetch" /\ pc' = "response"

EarlierProjectsDone ==
  /\ Len(taggedProjects) = projectIndex
  /\ project = rawProjects[projectIndex + 1]
  /\ lastProcessedIndex < projectIndex

\* C27: a request to the language model starts only for the project at the
\* index of the loop, after every earlier project is in the tagged list,
\* and, when a project was processed before it in the run, after the sleep
\* of DELAY_BETWEEN_REQUESTS that follows that project has ended.
C27_RequestsOneAtATimeAfterDelay ==
  [][RequestStarts
       => (EarlierProjectsDone /\ (processedThisRun > 0 => slept))]_vars

C27_Witness ==
  /\ pc = "response"
  /\ processedThisRun > 0
  /\ retryCount > 0
  /\ slept

TagsSurviveResume ==
  \A n \in 1..Len(taggedOutput) :
    (n <= startIndex /\ generated[n] # <<>>)
      => taggedOutput[n].tags = generated[n]

PositionsCorrespond ==
  /\ \A n \in 1..Len(taggedProjects) : taggedProjects[n].id = rawProjects[n].id
  /\ \A n \in 1..Len(taggedOutput) : taggedOutput[n].id = rawProjects[n].id
  /\ Len(taggedOutput) \in {0, Len(rawProjects)}

\* C28: after a resume from a checkpoint, the output file holds, for every
\* project before the index the run started from, the tags processProject
\* returned for it in the earlier run, and position n of the tagged list is
\* project n of the input.
C28_TagsSurviveResume == TagsSurviveResume /\ PositionsCorrespond

(***************************************************************************)
(* Vocabulary of the claim about the keyword categorizer.                  *)
(***************************************************************************)
TagMatches(c) ==
  {k \in 1..Len(CATEGORIES[c].keywords) :
     \E t \in 1..Len(catProject.tags) :
       toLowerCase(catProject.tags[t]) = toLowerCase(CATEGORIES[c].keywords[k])}

NameMatches(c) ==
  {k \in 1..Len(CATEGORIES[c].keywords) :
     Includes(toLowerCase(catProject.name),
              toLowerCase(CATEGORIES[c].keywords[k]))}

DescriptionMatches(c) ==
  {k \in 1..Len(CATEGORIES[c].keywords) :
     Includes(toLowerCase(catProject.description),
              toLowerCase(CATEGORIES[c].keywords[k]))}

ScoreOf(c) ==
  5 * Cardinality(TagMatches(c)) + 3 * Cardinality(NameMatches(c))
    + Cardinality(DescriptionMatches(c))

HighestScored ==
  LET scores == [c \in 1..Len(CATEGORIES) |-> ScoreOf(c)]
  IN {c \in 1..Len(CATEGORIES) :
        scores[c] > 0 /\ \A d \in 1..Len(CATEGORIES) : scores[d] <= scores[c]}

\* C30: the suggested category is the one with the highest score, where a
\* keyword counts 5 for a tag equal to it up to case, 3 for occurring in the
\* name and 1 for occurring in the description; of several categories with
\* the highest score the first of CATEGORIES is taken, and a project that
\* scores zero everywhere is Uncategorized.
C30_HighestScoreFirstWins ==
  pc = "categorized"
    => LET highest == HighestScored
       IN IF highest = {}
          THEN suggested = "Uncategorized"
          ELSE suggested =
                 CATEGORIES[CHOOSE c \in highest : \A d \in highest : c <= d].name

C30_Witness ==
  /\ pc = "categorized"
  /\ Cardinality(HighestScored) > 1
  /\ suggested = "Transaction & Wallet Infrastructure"

====
